---------------------------- MODULE Spec2Model ----------------------------
(***************************************************************************)
(* Model of the transaction-explanation layer of explain-my-transaction.   *)
(*                                                                         *)
(* JavaScript strings are sequences of one-character strings, so that      *)
(* slice, split, padStart, concatenation and substring search are          *)
(* computed character by character.  An optional value (a property that    *)
(* may be undefined) is the empty set when absent and a singleton when     *)
(* present.  BigInt values are canonical sequences of decimal digits, so   *)
(* that no width limits them.                                              *)
(***************************************************************************)
EXTENDS Integers, Sequences, FiniteSets, TLC

VARIABLES
    micro,      \* formatSTXFromMicro: the argument
    formatted,  \* formatSTXFromMicro: the returned string, None before the call
    tx,         \* the raw transaction object handed to a normalizer
    events,     \* the raw event list handed along with it (None is null)
    tz,         \* ambient time zone of the process, hours east of UTC
    locale,     \* ambient default locale of the process
    called,     \* which function has been applied to tx ("none" before)
    result,     \* what that function returned or threw
    strArgs,    \* the arguments of a call of a string helper (None otherwise)
    second,     \* what a step after the call produced: a second invocation, a serialization
    net,        \* resolveNetworkAndFetchTx: the state of one call (None otherwise)
    http,       \* a POST handler: the state of one request (None otherwise)
    page        \* a page component: its React state and requests (None otherwise)

vars == <<micro, formatted, tx, events, tz, locale, called, result, strArgs, second, net,
         http, page>>

\* the argument of a call and the environment it runs in do not change
\* during the call
inputs == <<micro, tx, events, tz, locale, strArgs>>

----------------------------------------------------------------------------
(* Optional values *)

None == {}
Some(v) == {v}
Has(o) == o # {}
Val(o) == CHOOSE v \in o : TRUE

----------------------------------------------------------------------------
(* Strings as character sequences *)

DigitChars == <<"0", "1", "2", "3", "4", "5", "6", "7", "8", "9">>

IsDigit(c) == \E i \in 1..10 : DigitChars[i] = c

DigitVal(c) == (CHOOSE i \in 1..10 : DigitChars[i] = c) - 1

DigitChar(d) == DigitChars[d + 1]

\* String.prototype.slice(from) for 0 <= from
SliceFrom(s, from) == SubSeq(s, from + 1, Len(s))

\* String.prototype.slice(0, to) for 0 <= to
SliceTo(s, to) == SubSeq(s, 1, IF to < Len(s) THEN to ELSE Len(s))

\* String.prototype.slice(-n) for n > 0
SliceLast(s, n) == IF n >= Len(s) THEN s ELSE SubSeq(s, Len(s) - n + 1, Len(s))

\* String.prototype.includes
Includes(s, p) ==
    \E i \in 0..(Len(s) - Len(p)) : SubSeq(s, i + 1, i + Len(p)) = p

\* s.replace(/0+$/, "")
RECURSIVE StripTrailingZeros(_)
StripTrailingZeros(s) ==
    IF s # <<>> /\ s[Len(s)] = "0"
    THEN StripTrailingZeros(SubSeq(s, 1, Len(s) - 1))
    ELSE s

\* s.padStart(n, "0")
RECURSIVE PadStartZero(_, _)
PadStartZero(s, n) == IF Len(s) >= n THEN s ELSE PadStartZero(<<"0">> \o s, n)

\* Number.prototype.toString / String(n) for an integer n >= 0
RECURSIVE NatToString(_)
NatToString(n) ==
    IF n < 10 THEN <<DigitChar(n)>>
    ELSE NatToString(n \div 10) \o <<DigitChar(n % 10)>>

\* Number(s) for a string of decimal digits that fits the integer range
RECURSIVE DigitsToNat(_)
DigitsToNat(s) ==
    IF s = <<>> THEN 0
    ELSE DigitsToNat(SubSeq(s, 1, Len(s) - 1)) * 10 + DigitVal(s[Len(s)])

IsDigitString(s) == s # <<>> /\ \A i \in 1..Len(s) : IsDigit(s[i])

----------------------------------------------------------------------------
(* BigInt arithmetic on canonical digit sequences (<<>> is 0n) *)

Million == 1000000

RECURSIVE StripLeadingZeros(_)
StripLeadingZeros(s) ==
    IF s # <<>> /\ s[1] = "0" THEN StripLeadingZeros(Tail(s)) ELSE s

\* BigInt(String(micro)): the parsed value, or a SyntaxError.
\* The literal is an optional "-" followed by decimal digits; the empty
\* string parses to 0n.
BigIntParse(s) ==
    LET neg  == s # <<>> /\ s[1] = "-"
        body == IF neg THEN Tail(s) ELSE s
    IN  IF s = <<>> THEN [ok |-> TRUE, neg |-> FALSE, mag |-> <<>>]
        ELSE IF IsDigitString(body)
        THEN LET m == StripLeadingZeros(body)
             IN  [ok |-> TRUE, neg |-> neg /\ m # <<>>, mag |-> m]
        ELSE [ok |-> FALSE, neg |-> FALSE, mag |-> <<>>]

\* Long division of a digit sequence by 1_000_000n, digit k onwards: q holds
\* the quotient digits so far and r the running remainder.
RECURSIVE BigDivStep(_, _, _, _)
BigDivStep(mag, k, q, r) ==
    IF k > Len(mag) THEN [q |-> q, r |-> r]
    ELSE BigDivStep(mag, k + 1,
                    q \o <<DigitChar((r * 10 + DigitVal(mag[k])) \div Million)>>,
                    (r * 10 + DigitVal(mag[k])) % Million)

\* abs / 1_000_000n
BigDivMillion(mag) == StripLeadingZeros(BigDivStep(mag, 1, <<>>, 0).q)

\* abs % 1_000_000n
BigModMillion(mag) == BigDivStep(mag, 1, <<>>, 0).r

\* BigInt.prototype.toString
BigToString(mag) == IF mag = <<>> THEN <<"0">> ELSE mag

----------------------------------------------------------------------------
(* src/src/app/page.tsx: formatSTXFromMicro *)

\* formatSTXFromMicro with the fraction not padded to six digits
formatSTXFromMicroNoPad(m) ==
    LET n == BigIntParse(m)
    IN  IF ~n.ok THEN m
        ELSE LET sign    == IF n.neg THEN <<"-">> ELSE <<>>
                 whole   == BigDivMillion(n.mag)
                 frac    == BigModMillion(n.mag)
                 fracStr == StripTrailingZeros(NatToString(frac))
             IN  IF fracStr # <<>>
                 THEN sign \o BigToString(whole) \o <<".">> \o fracStr
                 ELSE sign \o BigToString(whole)

formatSTXFromMicro(m) ==
    LET n == BigIntParse(m)
    IN  IF ~n.ok THEN m
        ELSE LET sign    == IF n.neg THEN <<"-">> ELSE <<>>
                 whole   == BigDivMillion(n.mag)
                 frac    == BigModMillion(n.mag)
                 fracStr == StripTrailingZeros(PadStartZero(NatToString(frac), 6))
             IN  IF fracStr # <<>>
                 THEN sign \o BigToString(whole) \o <<".">> \o fracStr
                 ELSE sign \o BigToString(whole)

----------------------------------------------------------------------------
(* Specification of formatSTXFromMicro on bounded amount strings *)

MaxTailLen == 6

TailAlphabet == {"0", "1", "9"}

\* a 17-digit prefix: with any tail the amount has 18 or more digits
LongHead == <<"1", "2", "3", "4", "5", "6", "7", "8", "9", "0", "1", "2", "3", "4", "5", "6", "7">>

DigitTails == UNION {[1..n -> TailAlphabet] : n \in 1..MaxTailLen}

MalformedAmounts == {<<"1", ".", "5">>, <<"a", "b", "c">>, <<"-">>}

MicroInputs ==
    {sg \o hd \o tl : sg \in {<<>>, <<"-">>}, hd \in {<<>>, <<"4", "2">>, LongHead}, tl \in DigitTails}
        \cup MalformedAmounts

EnUS == [name |-> "en-US", group |-> ",", decimal |-> "."]

DeDE == [name |-> "de-DE", group |-> ".", decimal |-> ","]

IdleNormalizer ==
    /\ strArgs = None
    /\ second = None
    /\ net = None
    /\ http = None
    /\ page = None
    /\ tx = None
    /\ events = None
    /\ tz = 0
    /\ locale = EnUS
    /\ called = "none"
    /\ result = None

InitFormat ==
    /\ micro \in MicroInputs
    /\ formatted = None
    /\ IdleNormalizer

FormatSTX ==
    /\ formatted = None
    /\ formatted' = Some(formatSTXFromMicro(micro))
    /\ UNCHANGED <<inputs, called, result, second, net, http, page>>

NextFormat == FormatSTX

SpecFormat == InitFormat /\ [][NextFormat]_vars

----------------------------------------------------------------------------
(* String literals of the sources *)

S_token_transfer == <<"t", "o", "k", "e", "n", "_", "t", "r", "a", "n", "s", "f", "e", "r">>
S_contract_call == <<"c", "o", "n", "t", "r", "a", "c", "t", "_", "c", "a", "l", "l">>
S_smart_contract == <<"s", "m", "a", "r", "t", "_", "c", "o", "n", "t", "r", "a", "c", "t">>
S_stx_transfer == <<"s", "t", "x", "_", "t", "r", "a", "n", "s", "f", "e", "r">>
S_coinbase == <<"c", "o", "i", "n", "b", "a", "s", "e">>
S_unknown == <<"u", "n", "k", "n", "o", "w", "n">>
S_success == <<"s", "u", "c", "c", "e", "s", "s">>
S_failed == <<"f", "a", "i", "l", "e", "d">>
S_abort_by_response == <<"a", "b", "o", "r", "t", "_", "b", "y", "_", "r", "e", "s", "p", "o", "n", "s", "e">>
S_abort_by_post_condition == <<"a", "b", "o", "r", "t", "_", "b", "y", "_", "p", "o", "s", "t", "_", "c", "o", "n", "d", "i", "t", "i", "o", "n">>
S_UnknownSender == <<"U", "n", "k", "n", "o", "w", "n", " ", "s", "e", "n", "d", "e", "r">>
S_unknownRecipient == <<"u", "n", "k", "n", "o", "w", "n", " ", "r", "e", "c", "i", "p", "i", "e", "n", "t">>
S_unknownAmount == <<"u", "n", "k", "n", "o", "w", "n", " ", "a", "m", "o", "u", "n", "t">>
S_unknownContract == <<"u", "n", "k", "n", "o", "w", "n", " ", "c", "o", "n", "t", "r", "a", "c", "t">>
S_unknownFunction == <<"u", "n", "k", "n", "o", "w", "n", " ", "f", "u", "n", "c", "t", "i", "o", "n">>
S_transferred == <<" ", "t", "r", "a", "n", "s", "f", "e", "r", "r", "e", "d", " ">>
S_to == <<" ", "t", "o", " ">>
S_withMemo == <<" ", "w", "i", "t", "h", " ", "m", "e", "m", "o", ":", " ", "\"">>
S_quote == <<"\"">>
S_called == <<" ", "c", "a", "l", "l", "e", "d", " ">>
S_on == <<" ", "o", "n", " ">>
S_withArgs == <<" ", "w", "i", "t", "h", " ", "a", "r", "g", "s", " ", "(">>
S_close == <<")">>
S_published == <<" ", "p", "u", "b", "l", "i", "s", "h", "e", "d", " ", "c", "o", "n", "t", "r", "a", "c", "t", " ">>
S_submitted == <<" ", "s", "u", "b", "m", "i", "t", "t", "e", "d", " ", "a", " ">>
S_transaction == <<" ", "t", "r", "a", "n", "s", "a", "c", "t", "i", "o", "n">>
S_open == <<" ", "(">>
S_STX == <<" ", "S", "T", "X">>
S_commaSpace == <<",", " ">>
S_Send == <<"S", "e", "n", "d", " ">>
S_question == <<"?">>
S_Call == <<"C", "a", "l", "l", " ">>
S_Deploy == <<"D", "e", "p", "l", "o", "y", " ">>
S_contract == <<"c", "o", "n", "t", "r", "a", "c", "t">>
S_statusColon == <<"s", "t", "a", "t", "u", "s", ":">>
S_bns == <<"b", "n", "s">>
S_nft == <<"n", "f", "t">>
S_swap == <<"s", "w", "a", "p">>
S_vault == <<"v", "a", "u", "l", "t">>
S_defi == <<"d", "e", "f", "i">>
S_nightTx == <<"n", "i", "g", "h", "t", "-", "t", "x">>
S_new == <<"n", "e", "w">>
S_defineContract == <<"d", "e", "f", "i", "n", "e", "-", "c", "o", "n", "t", "r", "a", "c", "t">>
S_emptyObject == <<"{", "}">>

\* U+2026 HORIZONTAL ELLIPSIS, one character
Ellipsis == "..."

\* U+00B5 MICRO SIGN, one character
MicroSign == "mu"

HexChars ==
    {"0", "1", "2", "3", "4", "5", "6", "7", "8", "9",
     "a", "b", "c", "d", "e", "f", "A", "B", "C", "D", "E", "F"}

LowerChars ==
    {"a", "b", "c", "d", "e", "f", "g", "h", "i", "j", "k", "l", "m",
     "n", "o", "p", "q", "r", "s", "t", "u", "v", "w", "x", "y", "z"}

UpperChars ==
    {"A", "B", "C", "D", "E", "F", "G", "H", "I", "J", "K", "L", "M",
     "N", "O", "P", "Q", "R", "S", "T", "U", "V", "W", "X", "Y", "Z"}

DecimalChars == {"0", "1", "2", "3", "4", "5", "6", "7", "8", "9"}

\* \w
WordChars == LowerChars \cup UpperChars \cup DecimalChars \cup {"_"}

\* \s (the white space the modelled inputs can hold)
SpaceChars == {" ", "\t", "\n"}

\* [A-Za-z0-9+/=]
Base64Chars == LowerChars \cup UpperChars \cup DecimalChars \cup {"+", "/", "="}

AllIn(s, cls) == \A i \in 1..Len(s) : s[i] \in cls

----------------------------------------------------------------------------
(* JavaScript coercions and operators *)

\* truthiness of a string-valued and of a number-valued property
TruthyStr(o) == Has(o) /\ Val(o) # <<>>
TruthyNum(o) == Has(o) /\ Val(o) # 0

\* a?.f where f holds an optional value
OptGet(o, f) == IF Has(o) THEN Val(o)[f] ELSE None

\* what a call produces: a returned value or a thrown TypeError
Return(v) == [threw |-> FALSE, value |-> v]
Throw == [threw |-> TRUE, value |-> "TypeError"]

\* s.replace(/_/g, to)
ReplaceUnderscores(s, to) == [i \in 1..Len(s) |-> IF s[i] = "_" THEN to ELSE s[i]]

\* parts.join(sep)
RECURSIVE Join(_, _)
Join(parts, sep) ==
    IF parts = <<>> THEN <<>>
    ELSE IF Len(parts) = 1 THEN parts[1]
    ELSE parts[1] \o sep \o Join(Tail(parts), sep)

\* s.split(sep) for a one-character separator
RECURSIVE Split(_, _)
Split(s, sep) ==
    IF \E i \in 1..Len(s) : s[i] = sep
    THEN LET k == CHOOSE i \in 1..Len(s) :
                      s[i] = sep /\ \A j \in 1..(i - 1) : s[j] # sep
         IN  <<SubSeq(s, 1, k - 1)>> \o Split(SubSeq(s, k + 1, Len(s)), sep)
    ELSE <<s>>

\* Number(s) of a digit string, kept as its canonical digits; a > b on them
NumGreater(a, b) ==
    LET x == StripLeadingZeros(a)
        y == StripLeadingZeros(b)
    IN  \/ Len(x) > Len(y)
        \/ /\ Len(x) = Len(y)
           /\ \E i \in 1..Len(x) :
                  /\ DigitVal(x[i]) > DigitVal(y[i])
                  /\ \A j \in 1..(i - 1) : x[j] = y[j]

\* length of the longest run of characters of cls that starts at s[i]
RECURSIVE RunLen(_, _, _)
RunLen(s, i, cls) ==
    IF i <= Len(s) /\ s[i] \in cls THEN 1 + RunLen(s, i + 1, cls) ELSE 0

----------------------------------------------------------------------------
(* src/src/features/explain-transaction/explainTx.ts: helpers *)

safeNumber(v) == IF ~Has(v) THEN None ELSE v

\* the keys of pick(tx, [...]) hold the raw properties
pick(obj, keys) == [k \in keys |-> obj[k]]

\* shortAddr keeping the last four characters instead of the last six
shortAddrLastFour(addr) ==
    IF Len(addr) <= 14 THEN addr
    ELSE SliceTo(addr, 6) \o <<Ellipsis>> \o SliceLast(addr, 4)

shortAddr(addr) ==
    IF Len(addr) <= 14 THEN addr
    ELSE SliceTo(addr, 6) \o <<Ellipsis>> \o SliceLast(addr, 6)

\* (microStx / 1_000_000).toFixed(6).  The quotient of an integer below
\* 2^53 by 10^6 is within 10^-9 of a multiple of 10^-6, so toFixed(6) prints
\* the exact whole part and the exact six fraction digits.
ToFixed6OfMillionth(digits) ==
    LET mag == StripLeadingZeros(digits)
    IN  BigToString(BigDivMillion(mag)) \o <<".">>
            \o PadStartZero(NatToString(BigModMillion(mag)), 6)

\* Number(amount) is NaN for the non-numeric amounts of the model
formatMicroStx(amount) ==
    IF ~IsDigitString(amount) THEN amount
    ELSE ToFixed6OfMillionth(amount)

formatMicroStxWithUnit(amount) == formatMicroStx(amount) \o S_STX

formatContractId(contractId) ==
    LET parts == Split(contractId, ".")
    IN  IF Len(parts) = 2
        THEN shortAddr(parts[1]) \o <<".">> \o parts[2]
        ELSE contractId

decodeMemo(memo) ==
    IF memo # <<>> /\ AllIn(memo, HexChars) THEN Some(memo)
    ELSE IF memo # <<>> /\ AllIn(memo, Base64Chars) THEN Some(memo)
    ELSE IF Len(memo) > 0 THEN Some(memo) ELSE None

decodeFunctionArgs(contractId, functionName, args) ==
    IF ~TruthyStr(contractId) \/ ~TruthyStr(functionName) \/ ~Has(args) THEN None
    ELSE Some([function  |-> Val(functionName),
               arguments |-> Val(args),
               count     |-> Len(Val(args))])

\* source.match(/define-contract\s+(\w+)/): the captured name of the
\* leftmost match, None when nothing matches
MatchDefineContract(source) ==
    LET n == Len(S_defineContract)
        Hit(i) ==
            /\ SubSeq(source, i, i + n - 1) = S_defineContract
            /\ RunLen(source, i + n, SpaceChars) >= 1
            /\ RunLen(source, i + n + RunLen(source, i + n, SpaceChars), WordChars) >= 1
        hits == {i \in 1..(Len(source) - n + 1) : Hit(i)}
    IN  IF hits = {} THEN None
        ELSE LET i == CHOOSE h \in hits : \A g \in hits : h <= g
                 w == i + n + RunLen(source, i + n, SpaceChars)
             IN  Some(SubSeq(source, w, w + RunLen(source, w, WordChars) - 1))

extractContractName(contractId, source) ==
    IF TruthyStr(contractId) /\ Len(Split(Val(contractId), ".")) = 2
    THEN Some(Split(Val(contractId), ".")[2])
    ELSE IF TruthyStr(source) THEN MatchDefineContract(Val(source))
    ELSE None

\* buildSummary whose generic sentence leaves the type out
buildSummaryNoKind(input) ==
    LET s  == IF TruthyStr(input.sender) THEN shortAddr(Val(input.sender))
              ELSE S_UnknownSender
        st == IF TruthyStr(input.status)
              THEN S_open \o Val(input.status) \o S_close ELSE <<>>
    IN  IF input.kind = S_token_transfer
        THEN LET r == IF TruthyStr(input.recipient)
                      THEN shortAddr(Val(input.recipient)) ELSE S_unknownRecipient
                 a == IF TruthyStr(input.amount)
                      THEN formatMicroStxWithUnit(Val(input.amount)) ELSE S_unknownAmount
                 memoNote == IF TruthyStr(input.decodedMemo)
                             THEN S_withMemo \o Val(input.decodedMemo) \o S_quote
                             ELSE <<>>
             IN  s \o S_transferred \o a \o S_to \o r \o memoNote \o st
        ELSE IF input.kind = S_contract_call
        THEN LET c == IF TruthyStr(input.contractId)
                      THEN formatContractId(Val(input.contractId)) ELSE S_unknownContract
                 f == IF TruthyStr(input.functionName)
                      THEN Val(input.functionName) ELSE S_unknownFunction
                 args == IF TruthyStr(input.functionArgs)
                         THEN S_withArgs \o Val(input.functionArgs) \o S_close
                         ELSE <<>>
             IN  s \o S_called \o f \o S_on \o c \o args \o st
        ELSE IF input.kind = S_smart_contract
        THEN LET c == IF TruthyStr(input.contractName) THEN Val(input.contractName)
                      ELSE IF TruthyStr(input.contractId)
                      THEN formatContractId(Val(input.contractId))
                      ELSE S_unknownContract
             IN  s \o S_published \o c \o st
        ELSE s \o S_submitted \o S_transaction \o st

\* buildSummary without the contract_call template
buildSummaryNoCallTemplate(input) ==
    LET s  == IF TruthyStr(input.sender) THEN shortAddr(Val(input.sender))
              ELSE S_UnknownSender
        st == IF TruthyStr(input.status)
              THEN S_open \o Val(input.status) \o S_close ELSE <<>>
    IN  IF input.kind = S_token_transfer
        THEN LET r == IF TruthyStr(input.recipient)
                      THEN shortAddr(Val(input.recipient)) ELSE S_unknownRecipient
                 a == IF TruthyStr(input.amount)
                      THEN formatMicroStxWithUnit(Val(input.amount)) ELSE S_unknownAmount
                 memoNote == IF TruthyStr(input.decodedMemo)
                             THEN S_withMemo \o Val(input.decodedMemo) \o S_quote
                             ELSE <<>>
             IN  s \o S_transferred \o a \o S_to \o r \o memoNote \o st
        ELSE IF input.kind = S_smart_contract
        THEN LET c == IF TruthyStr(input.contractName) THEN Val(input.contractName)
                      ELSE IF TruthyStr(input.contractId)
                      THEN formatContractId(Val(input.contractId))
                      ELSE S_unknownContract
             IN  s \o S_published \o c \o st
        ELSE s \o S_submitted \o input.kind \o S_transaction \o st

\* buildSummary without the status suffix
buildSummaryNoStatus(input) ==
    LET s  == IF TruthyStr(input.sender) THEN shortAddr(Val(input.sender))
              ELSE S_UnknownSender
        st == <<>>
    IN  IF input.kind = S_token_transfer
        THEN LET r == IF TruthyStr(input.recipient)
                      THEN shortAddr(Val(input.recipient)) ELSE S_unknownRecipient
                 a == IF TruthyStr(input.amount)
                      THEN formatMicroStxWithUnit(Val(input.amount)) ELSE S_unknownAmount
                 memoNote == IF TruthyStr(input.decodedMemo)
                             THEN S_withMemo \o Val(input.decodedMemo) \o S_quote
                             ELSE <<>>
             IN  s \o S_transferred \o a \o S_to \o r \o memoNote \o st
        ELSE IF input.kind = S_contract_call
        THEN LET c == IF TruthyStr(input.contractId)
                      THEN formatContractId(Val(input.contractId)) ELSE S_unknownContract
                 f == IF TruthyStr(input.functionName)
                      THEN Val(input.functionName) ELSE S_unknownFunction
                 args == IF TruthyStr(input.functionArgs)
                         THEN S_withArgs \o Val(input.functionArgs) \o S_close
                         ELSE <<>>
             IN  s \o S_called \o f \o S_on \o c \o args \o st
        ELSE IF input.kind = S_smart_contract
        THEN LET c == IF TruthyStr(input.contractName) THEN Val(input.contractName)
                      ELSE IF TruthyStr(input.contractId)
                      THEN formatContractId(Val(input.contractId))
                      ELSE S_unknownContract
             IN  s \o S_published \o c \o st
        ELSE s \o S_submitted \o input.kind \o S_transaction \o st

buildSummary(input) ==
    LET s  == IF TruthyStr(input.sender) THEN shortAddr(Val(input.sender))
              ELSE S_UnknownSender
        st == IF TruthyStr(input.status)
              THEN S_open \o Val(input.status) \o S_close ELSE <<>>
    IN  IF input.kind = S_token_transfer
        THEN LET r == IF TruthyStr(input.recipient)
                      THEN shortAddr(Val(input.recipient)) ELSE S_unknownRecipient
                 a == IF TruthyStr(input.amount)
                      THEN formatMicroStxWithUnit(Val(input.amount)) ELSE S_unknownAmount
                 memoNote == IF TruthyStr(input.decodedMemo)
                             THEN S_withMemo \o Val(input.decodedMemo) \o S_quote
                             ELSE <<>>
             IN  s \o S_transferred \o a \o S_to \o r \o memoNote \o st
        ELSE IF input.kind = S_contract_call
        THEN LET c == IF TruthyStr(input.contractId)
                      THEN formatContractId(Val(input.contractId)) ELSE S_unknownContract
                 f == IF TruthyStr(input.functionName)
                      THEN Val(input.functionName) ELSE S_unknownFunction
                 args == IF TruthyStr(input.functionArgs)
                         THEN S_withArgs \o Val(input.functionArgs) \o S_close
                         ELSE <<>>
             IN  s \o S_called \o f \o S_on \o c \o args \o st
        ELSE IF input.kind = S_smart_contract
        THEN LET c == IF TruthyStr(input.contractName) THEN Val(input.contractName)
                      ELSE IF TruthyStr(input.contractId)
                      THEN formatContractId(Val(input.contractId))
                      ELSE S_unknownContract
             IN  s \o S_published \o c \o st
        ELSE s \o S_submitted \o input.kind \o S_transaction \o st

\* the properties of buildSummary's argument that a call site leaves out
NoSummaryInput ==
    [kind |-> <<>>, sender |-> None, recipient |-> None, amount |-> None,
     contractId |-> None, functionName |-> None, functionArgs |-> None,
     contractName |-> None, decodedMemo |-> None, status |-> None]

buildShortSummary(kind, param1, param2) ==
    IF kind = S_token_transfer
    THEN S_Send \o (IF TruthyStr(param1) THEN Val(param1) ELSE S_question) \o S_STX
    ELSE IF kind = S_contract_call
    THEN S_Call \o (IF TruthyStr(param1) THEN Val(param1) ELSE S_question)
    ELSE IF kind = S_smart_contract
    THEN S_Deploy \o (IF TruthyStr(param1) THEN Val(param1) ELSE S_contract)
    ELSE ReplaceUnderscores(kind, " ")

HighAmount == <<"1", "0", "0", "0", "0", "0", "0", "0", "0", "0", "0", "0", "0">>

MediumAmount == <<"1", "0", "0", "0", "0", "0", "0", "0", "0", "0", "0", "0">>

\* the two thresholds compared with >= instead of >
determineRiskLevelInclusive(t, txType, status) ==
    IF status \in {Some(S_failed), Some(S_abort_by_response), Some(S_abort_by_post_condition)}
    THEN "critical"
    ELSE IF /\ txType = S_contract_call
            /\ Has(t.contract_call)
            /\ Has(Val(t.contract_call).contract_id)
            /\ \/ Includes(Val(Val(t.contract_call).contract_id), S_unknown)
               \/ Includes(Val(Val(t.contract_call).contract_id), S_new)
    THEN "high"
    ELSE IF /\ txType = S_token_transfer
            /\ Has(t.token_transfer)
            /\ Has(Val(t.token_transfer).amount)
            /\ IsDigitString(Val(Val(t.token_transfer).amount))
            /\ ~NumGreater(HighAmount, Val(Val(t.token_transfer).amount))
    THEN "high"
    ELSE IF /\ txType = S_token_transfer
            /\ Has(t.token_transfer)
            /\ Has(Val(t.token_transfer).amount)
            /\ IsDigitString(Val(Val(t.token_transfer).amount))
            /\ ~NumGreater(MediumAmount, Val(Val(t.token_transfer).amount))
    THEN "medium"
    ELSE "low"

determineRiskLevel(t, txType, status) ==
    IF status \in {Some(S_failed), Some(S_abort_by_response), Some(S_abort_by_post_condition)}
    THEN "critical"
    ELSE IF /\ txType = S_contract_call
            /\ Has(t.contract_call)
            /\ Has(Val(t.contract_call).contract_id)
            /\ \/ Includes(Val(Val(t.contract_call).contract_id), S_unknown)
               \/ Includes(Val(Val(t.contract_call).contract_id), S_new)
    THEN "high"
    ELSE IF /\ txType = S_token_transfer
            /\ Has(t.token_transfer)
            /\ Has(Val(t.token_transfer).amount)
            /\ IsDigitString(Val(Val(t.token_transfer).amount))
            /\ NumGreater(Val(Val(t.token_transfer).amount), HighAmount)
    THEN "high"
    ELSE IF /\ txType = S_token_transfer
            /\ Has(t.token_transfer)
            /\ Has(Val(t.token_transfer).amount)
            /\ IsDigitString(Val(Val(t.token_transfer).amount))
            /\ NumGreater(Val(Val(t.token_transfer).amount), MediumAmount)
    THEN "medium"
    ELSE "low"

generateWarnings(t, riskLevel) ==
    (IF riskLevel = "critical"
     THEN <<"This transaction failed - review for errors">> ELSE <<>>)
    \o (IF riskLevel = "high"
        THEN <<"This transaction involves a large amount or unknown contract - verify carefully">>
        ELSE <<>>)
    \o (IF /\ Has(t.fee_rate)
           /\ IsDigitString(Val(t.fee_rate))
           /\ NumGreater(Val(t.fee_rate), <<"1", "0", "0", "0">>)
        THEN <<"Higher than average fee rate">> ELSE <<>>)
    \o (IF /\ t.tx_type = Some(S_contract_call)
           /\ \/ ~Has(OptGet(t.contract_call, "function_args"))
              \/ Len(Val(Val(t.contract_call).function_args)) = 0
        THEN <<"Contract call with no arguments - verify intent">> ELSE <<>>)

\* new Date(ms).getHours() in a process whose zone is zone hours east of UTC
getHours(ms, zone) == ((ms \div 3600000) + zone) % 24

generateTags(t, txType, zone) ==
    LET cid == OptGet(t.contract_call, "contract_id")
        Tag(word, tag) == IF Has(cid) /\ Includes(Val(cid), word) THEN <<tag>> ELSE <<>>
    IN  <<ReplaceUnderscores(txType, "-")>>
        \o (IF TruthyStr(t.tx_status) THEN <<S_statusColon \o Val(t.tx_status)>> ELSE <<>>)
        \o (IF txType = S_contract_call /\ Has(t.contract_call)
            THEN Tag(S_bns, S_bns) \o Tag(S_nft, S_nft) \o Tag(S_swap, S_defi)
                     \o Tag(S_vault, S_vault)
            ELSE <<>>)
        \o (IF TruthyNum(t.block_time) /\ getHours(Val(t.block_time), zone) < 6
            THEN <<S_nightTx>> ELSE <<>>)

----------------------------------------------------------------------------
(* src/src/features/explain-transaction/explainTx.ts: explainTransaction *)

currentBlockHeight == 1000

S_emptyRepr == <<"{", "\"", "r", "e", "p", "r", "\"", ":", "\"", "\"", "}">>

\* JSON.stringify(arg) of an argument whose repr is missing or empty
JSONStringifyArg(arg) == IF Has(arg.repr) THEN S_emptyRepr ELSE S_emptyObject

\* tx.contract_call.function_args.map(...) without the optional chaining
functionArgsOfStrict(t) ==
    IF ~Has(t.contract_call) \/ ~Has(Val(t.contract_call).function_args) THEN Throw
    ELSE Return(Some([i \in 1..Len(Val(Val(t.contract_call).function_args)) |->
             IF TruthyStr(Val(Val(t.contract_call).function_args)[i].repr)
             THEN Val(Val(Val(t.contract_call).function_args)[i].repr)
             ELSE JSONStringifyArg(Val(Val(t.contract_call).function_args)[i])]))

\* tx?.contract_call?.function_args?.map(arg => arg?.repr ? String(arg.repr) : JSON.stringify(arg))
functionArgsOf(t) ==
    LET fa == OptGet(t.contract_call, "function_args")
    IN  IF Has(fa)
        THEN Return(Some([i \in 1..Len(Val(fa)) |->
                 IF TruthyStr(Val(fa)[i].repr) THEN Val(Val(fa)[i].repr)
                 ELSE JSONStringifyArg(Val(fa)[i])]))
        ELSE Return(None)

RawKeys == {"tx_id", "tx_status", "tx_type", "fee_rate", "nonce"}

\* the token-transfer branch taken for any transaction with a token_transfer object
isTokenTransferAnyType(t, txType) == Has(t.token_transfer)

\* txType === "token_transfer" && tx?.token_transfer
isTokenTransfer(t, txType) == txType = S_token_transfer /\ Has(t.token_transfer)

\* txType === "contract_call" && tx?.contract_call
isContractCall(t, txType) == txType = S_contract_call /\ Has(t.contract_call)

\* txType === "smart_contract" && tx?.smart_contract
isSmartContract(t, txType) == txType = S_smart_contract /\ Has(t.smart_contract)

explainTransaction(t) ==
    LET txType == IF TruthyStr(t.tx_type) THEN Val(t.tx_type) ELSE S_unknown
        txId   == IF TruthyStr(t.tx_id) THEN t.tx_id ELSE None
        status == IF TruthyStr(t.tx_status) THEN t.tx_status ELSE None
        sender == IF TruthyStr(t.sender_address) THEN t.sender_address ELSE None
        feeRate == IF TruthyStr(t.fee_rate) THEN t.fee_rate ELSE None
        feeFormatted == IF TruthyStr(feeRate) THEN Some(formatMicroStx(Val(feeRate))) ELSE None
        nonce == IF Has(t.nonce) THEN t.nonce ELSE safeNumber(t.nonce)
        blockHeight == IF Has(t.block_height) THEN t.block_height
                       ELSE safeNumber(t.block_height)
        blockTime == IF TruthyStr(t.block_time_iso) THEN t.block_time_iso
                     ELSE IF TruthyNum(t.block_time)
                     THEN Some(NatToString(Val(t.block_time)))
                     ELSE None
        confirmations ==
            IF TruthyNum(blockHeight)
            THEN Some(IF currentBlockHeight - Val(blockHeight) > 0
                      THEN currentBlockHeight - Val(blockHeight) ELSE 0)
            ELSE None
        fa == functionArgsOf(t)
        functionArgs == fa.value
        riskLevel == determineRiskLevel(t, txType, status)
        warnings == generateWarnings(t, riskLevel)
        tags == generateTags(t, txType, tz)
        common ==
            [summary |-> <<>>, shortSummary |-> <<>>, txType |-> txType, txId |-> txId,
             status |-> status, sender |-> sender, recipient |-> None, amount |-> None,
             amountFormatted |-> None, feeRate |-> feeRate, feeFormatted |-> feeFormatted,
             nonce |-> nonce, contractId |-> None, functionName |-> None,
             functionArgs |-> None, memo |-> None, decodedData |-> None,
             blockHeight |-> blockHeight, blockTime |-> blockTime,
             confirmations |-> confirmations, riskLevel |-> riskLevel,
             warnings |-> warnings, tags |-> tags, raw |-> pick(t, RawKeys)]
    IN  IF fa.threw THEN Throw
        ELSE IF isTokenTransfer(t, txType)
        THEN LET tt == Val(t.token_transfer)
                 recipient == IF TruthyStr(tt.recipient_address)
                              THEN tt.recipient_address ELSE None
                 amount == IF TruthyStr(tt.amount) THEN tt.amount ELSE None
                 amountFormatted == IF TruthyStr(amount)
                                    THEN Some(formatMicroStx(Val(amount))) ELSE None
                 memo == IF TruthyStr(tt.memo) THEN tt.memo ELSE None
                 decodedMemo == IF TruthyStr(memo) THEN decodeMemo(Val(memo)) ELSE None
             IN  Return([common EXCEPT
                     !.summary = buildSummary([NoSummaryInput EXCEPT
                                     !.kind = S_token_transfer, !.sender = sender,
                                     !.recipient = recipient, !.amount = amount,
                                     !.status = status, !.decodedMemo = decodedMemo]),
                     !.shortSummary = buildShortSummary(S_token_transfer, amount, recipient),
                     !.recipient = recipient,
                     !.amount = amount,
                     !.amountFormatted = amountFormatted,
                     !.memo = memo,
                     !.decodedData = IF TruthyStr(decodedMemo)
                                     THEN Some([memo |-> Val(decodedMemo)]) ELSE None])
        ELSE IF isContractCall(t, txType)
        THEN LET cc == Val(t.contract_call)
                 contractId == IF TruthyStr(cc.contract_id) THEN cc.contract_id ELSE None
                 functionName == IF TruthyStr(cc.function_name)
                                 THEN cc.function_name ELSE None
                 decodedArgs == IF Has(functionArgs)
                                THEN decodeFunctionArgs(contractId, functionName, functionArgs)
                                ELSE None
             IN  Return([common EXCEPT
                     !.summary = buildSummary([NoSummaryInput EXCEPT
                                     !.kind = S_contract_call, !.sender = sender,
                                     !.contractId = contractId,
                                     !.functionName = functionName,
                                     !.functionArgs =
                                         IF Has(functionArgs)
                                         THEN Some(Join(Val(functionArgs), S_commaSpace))
                                         ELSE None,
                                     !.status = status]),
                     !.shortSummary = buildShortSummary(S_contract_call, functionName, contractId),
                     !.contractId = contractId,
                     !.functionName = functionName,
                     !.functionArgs = functionArgs,
                     !.decodedData = decodedArgs])
        ELSE IF isSmartContract(t, txType)
        THEN LET sc == Val(t.smart_contract)
                 contractId == IF TruthyStr(sc.contract_id) THEN sc.contract_id ELSE None
                 contractSource == IF TruthyStr(sc.source_code) THEN sc.source_code ELSE None
                 contractName == extractContractName(contractId, contractSource)
             IN  Return([common EXCEPT
                     !.summary = buildSummary([NoSummaryInput EXCEPT
                                     !.kind = S_smart_contract, !.sender = sender,
                                     !.contractId = contractId,
                                     !.contractName = contractName,
                                     !.status = status]),
                     !.shortSummary = buildShortSummary(S_smart_contract, contractName, contractId),
                     !.contractId = contractId,
                     !.decodedData =
                         Some([contractName |-> contractName,
                               sourceLength |-> IF Has(contractSource)
                                                THEN Some(Len(Val(contractSource)))
                                                ELSE None])])
        ELSE Return([common EXCEPT
                 !.summary = buildSummary([NoSummaryInput EXCEPT
                                 !.kind = txType, !.sender = sender, !.status = status]),
                 !.shortSummary = buildShortSummary(txType, None, None)])

----------------------------------------------------------------------------
(* src/unnamed/part_006: the first explainTransaction and its buildSummary *)

S_microStxTo == <<" ", MicroSign, "S", "T", "X", " ", "t", "o", " ">>

buildSummaryV1(input) ==
    LET s  == IF TruthyStr(input.sender) THEN shortAddr(Val(input.sender))
              ELSE S_UnknownSender
        st == IF TruthyStr(input.status)
              THEN S_open \o Val(input.status) \o S_close ELSE <<>>
    IN  IF input.kind = S_token_transfer
        THEN LET r == IF TruthyStr(input.recipient)
                      THEN shortAddr(Val(input.recipient)) ELSE S_unknownRecipient
                 a == IF TruthyStr(input.amount) THEN Val(input.amount) ELSE S_unknownAmount
             IN  s \o S_transferred \o a \o S_microStxTo \o r \o st
        ELSE IF input.kind = S_contract_call
        THEN LET c == IF TruthyStr(input.contractId)
                      THEN Val(input.contractId) ELSE S_unknownContract
                 f == IF TruthyStr(input.functionName)
                      THEN Val(input.functionName) ELSE S_unknownFunction
             IN  s \o S_called \o f \o S_on \o c \o st
        ELSE IF input.kind = S_smart_contract
        THEN LET c == IF TruthyStr(input.contractId)
                      THEN Val(input.contractId) ELSE S_unknownContract
             IN  s \o S_published \o c \o st
        ELSE s \o S_submitted \o input.kind \o S_transaction \o st

RawKeysV1 == {"tx_id", "tx_status", "tx_type"}

explainTransactionV1(t) ==
    LET txType == IF TruthyStr(t.tx_type) THEN Val(t.tx_type) ELSE S_unknown
        status == IF TruthyStr(t.tx_status) THEN t.tx_status ELSE None
        sender == IF TruthyStr(t.sender_address) THEN t.sender_address ELSE None
        feeRate == IF TruthyStr(t.fee_rate) THEN t.fee_rate ELSE None
        nonce == IF Has(t.nonce) THEN t.nonce ELSE safeNumber(t.nonce)
        blockHeight == IF Has(t.block_height) THEN t.block_height
                       ELSE safeNumber(t.block_height)
        blockTime == IF TruthyStr(t.block_time_iso) THEN t.block_time_iso
                     ELSE IF TruthyNum(t.block_time)
                     THEN Some(NatToString(Val(t.block_time)))
                     ELSE None
        common ==
            [summary |-> <<>>, txType |-> txType, status |-> status, sender |-> sender,
             recipient |-> None, amount |-> None, feeRate |-> feeRate, nonce |-> nonce,
             contractId |-> None, functionName |-> None, memo |-> None,
             blockHeight |-> blockHeight, blockTime |-> blockTime,
             raw |-> pick(t, RawKeysV1)]
    IN  IF txType = S_token_transfer /\ Has(t.token_transfer)
        THEN LET tt == Val(t.token_transfer)
                 recipient == IF TruthyStr(tt.recipient_address)
                              THEN tt.recipient_address ELSE None
                 amount == IF TruthyStr(tt.amount) THEN tt.amount ELSE None
                 memo == IF TruthyStr(tt.memo) THEN tt.memo ELSE None
             IN  Return([common EXCEPT
                     !.summary = buildSummaryV1([NoSummaryInput EXCEPT
                                     !.kind = S_token_transfer, !.sender = sender,
                                     !.recipient = recipient, !.amount = amount,
                                     !.status = status]),
                     !.recipient = recipient,
                     !.amount = amount,
                     !.memo = memo])
        ELSE IF txType = S_contract_call /\ Has(t.contract_call)
        THEN LET cc == Val(t.contract_call)
                 contractId == IF TruthyStr(cc.contract_id) THEN cc.contract_id ELSE None
                 functionName == IF TruthyStr(cc.function_name)
                                 THEN cc.function_name ELSE None
             IN  Return([common EXCEPT
                     !.summary = buildSummaryV1([NoSummaryInput EXCEPT
                                     !.kind = S_contract_call, !.sender = sender,
                                     !.contractId = contractId,
                                     !.functionName = functionName,
                                     !.status = status]),
                     !.contractId = contractId,
                     !.functionName = functionName])
        ELSE IF txType = S_smart_contract /\ Has(t.smart_contract)
        THEN LET sc == Val(t.smart_contract)
                 contractId == IF TruthyStr(sc.contract_id) THEN sc.contract_id ELSE None
             IN  Return([common EXCEPT
                     !.summary = buildSummaryV1([NoSummaryInput EXCEPT
                                     !.kind = S_smart_contract, !.sender = sender,
                                     !.contractId = contractId, !.status = status]),
                     !.contractId = contractId])
        ELSE Return([common EXCEPT
                 !.summary = buildSummaryV1([NoSummaryInput EXCEPT
                                 !.kind = txType, !.sender = sender, !.status = status])])

----------------------------------------------------------------------------
(* Raw transactions handed to the normalizers *)

ShortAddress == <<"S", "P", "1", "A", "B", "C">>

LongAddress == <<"S", "P", "2", "J", "6", "Z", "Y", "4", "8", "G", "V", "1", "E", "Z", "5", "V", "2", "V", "5", "R", "B", "9", "M", "P", "6", "6", "S", "W", "8", "6", "P", "Y", "K", "K", "N", "R", "V", "9", "E", "J", "7">>

RecipientAddress == <<"S", "P", "3", "F", "B", "R", "2", "A", "G", "K", "5", "H", "9", "Q", "B", "D", "H", "3", "E", "E", "N", "6", "D", "F", "8", "E", "K", "8", "J", "Y", "7", "R", "X", "8", "Q", "J", "5", "S", "V", "T", "E">>

SwapContractId == <<"S", "P", "2", "J", "6", "Z", "Y", "4", "8", "G", "V", "1", "E", "Z", "5", "V", "2", "V", "5", "R", "B", "9", "M", "P", "6", "6", "S", "W", "8", "6", "P", "Y", "K", "K", "N", "R", "V", "9", "E", "J", "7", ".", "s", "w", "a", "p", "-", "v", "1">>

DeployedContractId == <<"S", "P", "1", "A", "B", "C", ".", "c", "o", "u", "n", "t", "e", "r">>

SampleSource == <<"(", "d", "e", "f", "i", "n", "e", "-", "c", "o", "n", "t", "r", "a", "c", "t", " ", " ", "f", "o", "o", "_", "1", ")">>

OneStx == <<"1", "0", "0", "0", "0", "0", "0">>

LargeAmount == <<"1", "5", "0", "0", "0", "0", "0", "0", "0", "0", "0", "0", "1">>

SampleMemo == <<"6", "8", "6", "5", "6", "c", "6", "c", "6", "f">>

SampleFeeRate == <<"1", "8", "0">>

SampleFee == <<"2", "5", "0">>

SampleFunction == <<"t", "r", "a", "n", "s", "f", "e", "r">>

SampleRepr == <<"u", "1", "0", "0">>

SampleIso == <<"2", "0", "2", "3", "-", "1", "1", "-", "1", "4", "T", "2", "2", ":", "1", "3", ":", "2", "0", ".", "0", "0", "0", "Z">>

Nonces == {None, Some(7)}

BlockHeights == {None, Some(995)}

TxTypes ==
    {None, Some(S_token_transfer), Some(S_contract_call), Some(S_smart_contract),
     Some(S_coinbase)}

TokenTransfers ==
    {None} \cup
    {Some(o) : o \in [recipient_address : {None, Some(RecipientAddress)},
                      amount : {None, Some(OneStx), Some(LargeAmount)},
                      memo : {None, Some(SampleMemo)}]}

FunctionArgLists == {None, Some(<<>>), Some(<<[repr |-> Some(SampleRepr)], [repr |-> None]>>)}

ContractCalls ==
    {None} \cup
    {Some(o) : o \in [contract_id : {None, Some(SwapContractId)},
                      function_name : {None, Some(SampleFunction)},
                      function_args : FunctionArgLists]}

SmartContracts ==
    {None,
     Some([contract_id |-> None, source_code |-> None]),
     Some([contract_id |-> Some(DeployedContractId), source_code |-> Some(SampleSource)])}

\* the time properties of a pending and of a confirmed transaction
\* (block_time is in seconds since the epoch, as the indexer reports it)
BlockTimes ==
    {[iso |-> None, unix |-> None], [iso |-> None, unix |-> Some(1700000000)]}

ExplainInputs ==
    {[tx_type |-> ty, tx_id |-> None, tx_status |-> st, sender_address |-> sd,
      fee_rate |-> fr, fee |-> None, nonce |-> no, block_height |-> bh,
      block_time_iso |-> bt.iso, block_time |-> bt.unix,
      token_transfer |-> tt, contract_call |-> cc, smart_contract |-> sc,
      stx_transfer |-> None] :
        ty \in TxTypes, st \in {None, Some(S_success)},
        sd \in {None, Some(ShortAddress), Some(LongAddress)},
        fr \in {None, Some(SampleFeeRate)}, no \in Nonces,
        bh \in BlockHeights, bt \in BlockTimes,
        tt \in TokenTransfers, cc \in ContractCalls, sc \in SmartContracts}

IdleFormat ==
    /\ micro = <<>>
    /\ formatted = None
    /\ strArgs = None
    /\ second = None
    /\ net = None
    /\ http = None
    /\ page = None

InitExplain ==
    /\ tx \in ExplainInputs
    /\ events = None
    /\ tz = 0
    /\ locale = EnUS
    /\ called = "none"
    /\ result = None
    /\ IdleFormat

\* explainTx.ts: explainTransaction(tx)
ExplainTx ==
    /\ called = "none"
    /\ called' = "explainTransaction"
    /\ result' = Some(explainTransaction(tx))
    /\ UNCHANGED <<inputs, formatted, second, net, http, page>>

\* part_006: explainTransaction(tx)
ExplainTxV1 ==
    /\ called = "none"
    /\ called' = "explainTransactionV1"
    /\ result' = Some(explainTransactionV1(tx))
    /\ UNCHANGED <<inputs, formatted, second, net, http, page>>

NextExplain == ExplainTx \/ ExplainTxV1

SpecExplain == InitExplain /\ [][NextExplain]_vars

----------------------------------------------------------------------------
(* src/unnamed/part_009: the two parseStacksTx *)

S_Pending == <<"P", "e", "n", "d", "i", "n", "g">>

S_UnknownError == <<"U", "n", "k", "n", "o", "w", "n", " ", "e", "r", "r", "o", "r">>

S_undefined == <<"u", "n", "d", "e", "f", "i", "n", "e", "d">>

\* a value that is a number or a string
NumberValue(n) == [number |-> n]
StringValue(str) == [string |-> str]

\* `${v}` of an optional string
Template(o) == IF Has(o) THEN Val(o) ELSE S_undefined

\* tx.block_height ?? "Pending"
blockHeightOrPending(t) ==
    IF Has(t.block_height) THEN NumberValue(Val(t.block_height))
    ELSE StringValue(S_Pending)

\* part_009 lines 12-34
parseStacksTxV1(t) ==
    IF Has(t.contract_call) /\ ~Has(Val(t.contract_call).function_args)
    THEN Throw
    ELSE Return(
        [txid |-> t.tx_id,
         status |-> t.tx_status,
         sender |-> t.sender_address,
         fee |-> t.fee_rate,
         type |-> t.tx_type,
         blockHeight |-> blockHeightOrPending(t),
         contractCall |->
             IF Has(t.contract_call)
             THEN LET cc == Val(t.contract_call)
                  IN  Some([contract |-> cc.contract_id,
                            function |-> cc.function_name,
                            args |-> [i \in 1..Len(Val(cc.function_args)) |->
                                          Val(cc.function_args)[i].repr]])
             ELSE None,
         error |->
             IF t.tx_status = Some(S_failed)
             THEN (IF TruthyStr(OptGet(t.tx_result, "repr"))
                   THEN OptGet(t.tx_result, "repr")
                   ELSE Some(S_UnknownError))
             ELSE None])

\* part_009 lines 36-83
parseStacksTxV2(txData) ==
    LET base ==
            [txid |-> txData.tx_id,
             sender |-> txData.sender_address,
             fee |-> txData.fee_rate,
             blockHeight |-> blockHeightOrPending(txData),
             status |-> txData.tx_status,
             type |-> None, receiver |-> None, amount |-> None, asset |-> None,
             contractCall |-> None]
    IN  IF txData.tx_type = Some(S_token_transfer)
        THEN Return([base EXCEPT
                 !.type = Some(S_token_transfer),
                 !.receiver = OptGet(txData.token_transfer, "recipient_address"),
                 !.amount = OptGet(txData.token_transfer, "amount"),
                 !.asset = OptGet(txData.token_transfer, "asset_identifier")])
        ELSE IF txData.tx_type = Some(S_contract_call)
        THEN IF ~Has(txData.contract_call) THEN Throw
             ELSE LET cc == Val(txData.contract_call)
                  IN  Return([base EXCEPT
                          !.type = Some(S_contract_call),
                          !.contractCall =
                              Some([contract |-> Some(Template(cc.contract_address)
                                                          \o <<".">>
                                                          \o Template(cc.contract_name)),
                                    function |-> cc.function_name,
                                    args |-> IF Has(cc.function_args)
                                             THEN [i \in 1..Len(Val(cc.function_args)) |->
                                                       Val(cc.function_args)[i].repr]
                                             ELSE <<>>])])
        ELSE Return([base EXCEPT !.type = txData.tx_type])

----------------------------------------------------------------------------
(* Specification of the two parseStacksTx on bounded raw transactions *)

SampleTxId == <<"0", "x", "7", "7", "a", "7", "1", "7", "e", "f">>

SampleErrorRepr == <<"(", "e", "r", "r", " ", "u", "1", ")">>

ContractAddress == <<"S", "P", "2", "J", "6", "Z", "Y", "4", "8", "G", "V", "1", "E", "Z", "5", "V", "2", "V", "5", "R", "B", "9", "M", "P", "6", "6", "S", "W", "8", "6", "P", "Y", "K", "K", "N", "R", "V", "9", "E", "J", "7">>

ContractName == <<"s", "w", "a", "p", "-", "v", "1">>

\* a raw transaction none of whose properties is present
NoTx ==
    [tx_type |-> None, tx_id |-> None, tx_status |-> None, sender_address |-> None,
     fee_rate |-> None, fee |-> None, nonce |-> None, block_height |-> None,
     block_time_iso |-> None, block_time |-> None, tx_result |-> None,
     burn_block_time_iso |-> None, receipt_time_iso |-> None, event_count |-> None,
     token_transfer |-> None, contract_call |-> None, smart_contract |-> None,
     stx_transfer |-> None]

ParseTokenTransfers ==
    {None} \cup
    {Some(o) : o \in [recipient_address : {None, Some(RecipientAddress)},
                      amount : {None, Some(OneStx)},
                      asset_identifier : {None}]}

\* the contract is named by contract_id and by contract_address and
\* contract_name, all present or all absent
ParseContractCalls ==
    {None} \cup
    {Some([contract_id |-> IF named THEN Some(SwapContractId) ELSE None,
           contract_address |-> IF named THEN Some(ContractAddress) ELSE None,
           contract_name |-> IF named THEN Some(ContractName) ELSE None,
           function_name |-> fn,
           function_args |-> fa]) :
        named \in BOOLEAN, fn \in {None, Some(SampleFunction)}, fa \in FunctionArgLists}

TxResults ==
    {None, Some([repr |-> None]), Some([repr |-> Some(SampleErrorRepr)])}

ParseInputs ==
    {[NoTx EXCEPT !.tx_type = ty, !.tx_id = Some(SampleTxId), !.tx_status = st,
                  !.sender_address = sd, !.fee_rate = Some(SampleFeeRate),
                  !.block_height = bh, !.tx_result = tr,
                  !.token_transfer = tt, !.contract_call = cc] :
        ty \in {None, Some(S_token_transfer), Some(S_contract_call), Some(S_coinbase)},
        st \in {None, Some(S_success), Some(S_failed)},
        sd \in {None, Some(LongAddress)}, bh \in BlockHeights, tr \in TxResults,
        tt \in ParseTokenTransfers, cc \in ParseContractCalls}

InitParse ==
    /\ tx \in ParseInputs
    /\ events = None
    /\ tz = 0
    /\ locale = EnUS
    /\ called = "none"
    /\ result = None
    /\ IdleFormat

ParseStacksTxV1 ==
    /\ called = "none"
    /\ called' = "parseStacksTxV1"
    /\ result' = Some(parseStacksTxV1(tx))
    /\ UNCHANGED <<inputs, formatted, second, net, http, page>>

ParseStacksTxV2 ==
    /\ called = "none"
    /\ called' = "parseStacksTxV2"
    /\ result' = Some(parseStacksTxV2(tx))
    /\ UNCHANGED <<inputs, formatted, second, net, http, page>>

NextParse == ParseStacksTxV1 \/ ParseStacksTxV2

SpecParse == InitParse /\ [][NextParse]_vars

----------------------------------------------------------------------------
(* src/unnamed/part_007: pickAmountAndRecipient and explainTransaction(tx, events) *)

\* U+2014 EM DASH, one character
Dash == <<"--">>

S_NaN == <<"N", "a", "N">>

S_unitMicroStx == <<" ", MicroSign, "S", "T", "X">>

\* digits grouped in threes from the right
RECURSIVE GroupThousands(_, _)
GroupThousands(digits, sep) ==
    IF Len(digits) <= 3 THEN digits
    ELSE GroupThousands(SubSeq(digits, 1, Len(digits) - 3), sep) \o <<sep>>
             \o SubSeq(digits, Len(digits) - 2, Len(digits))

\* Number(s).toLocaleString() of a string s
NumberToLocaleString(str) ==
    IF ~IsDigitString(str) THEN S_NaN
    ELSE GroupThousands(BigToString(StripLeadingZeros(str)), locale.group)

\* new Date(iso).toLocaleString(): a rendering that varies with the
\* instant, the locale and the time zone
DateToLocaleString(iso) == [instant |-> iso, locale |-> locale.name, zone |-> tz]

\* (n / 1_000_000).toLocaleString(undefined, { maximumFractionDigits: 6 }) + " STX"
fmtStx(microStxLike) ==
    IF ~Has(microStxLike) THEN Dash
    ELSE IF ~IsDigitString(Val(microStxLike)) THEN Val(microStxLike)
    ELSE LET mag  == StripLeadingZeros(Val(microStxLike))
             frac == StripTrailingZeros(PadStartZero(NatToString(BigModMillion(mag)), 6))
         IN  GroupThousands(BigToString(BigDivMillion(mag)), locale.group)
                 \o (IF frac = <<>> THEN <<>> ELSE <<locale.decimal>> \o frac)
                 \o S_STX

\* safeStr of a string-valued and of a number-valued property
safeStr(v) == IF ~Has(v) THEN Dash ELSE Val(v)
safeStrOfNumber(v) == IF ~Has(v) THEN Dash ELSE NatToString(Val(v))

\* a ?? b
Coalesce(a, b) == IF Has(a) THEN a ELSE b

pickAmountAndRecipient(t) ==
    IF t.tx_type = Some(S_token_transfer) /\ Has(t.token_transfer)
    THEN LET tt == Val(t.token_transfer)
         IN  [amount |-> safeStr(tt.amount),
              amountLabel |->
                  IF TruthyStr(tt.asset_identifier)
                  THEN Template(tt.amount) \o S_open \o Val(tt.asset_identifier) \o S_close
                  ELSE safeStr(tt.amount),
              recipient |-> safeStr(tt.recipient_address),
              sender |-> safeStr(Coalesce(tt.sender_address, t.sender_address))]
    ELSE IF t.tx_type = Some(S_stx_transfer) /\ Has(t.stx_transfer)
    THEN LET st == Val(t.stx_transfer)
         IN  [amount |-> safeStr(st.amount),
              amountLabel |-> fmtStx(st.amount),
              recipient |-> safeStr(st.recipient_address),
              sender |-> safeStr(Coalesce(st.sender_address, t.sender_address))]
    ELSE [amount |-> Dash,
          amountLabel |-> Dash,
          recipient |->
              IF TruthyStr(OptGet(t.contract_call, "contract_id"))
              THEN safeStr(Val(t.contract_call).contract_id)
              ELSE IF TruthyStr(OptGet(t.smart_contract, "contract_id"))
              THEN safeStr(Val(t.smart_contract).contract_id)
              ELSE Dash,
          sender |-> safeStr(t.sender_address)]

\* tx.fee_rate ?? tx.fee ?? tx.fee_rate
cardsFeeRate(t) == Coalesce(t.fee_rate, Coalesce(t.fee, t.fee_rate))

Headlines ==
    [type \in {S_stx_transfer, S_token_transfer, S_contract_call, S_smart_contract} |->
        CASE type = S_stx_transfer -> "STX transfer"
          [] type = S_token_transfer -> "Token transfer"
          [] type = S_contract_call -> "Contract call"
          [] type = S_smart_contract -> "Contract deploy"]

MaxCompactEvents == 30

\* events.slice(0, 30).map(...)
compactEvent(e) ==
    [event_type |-> Coalesce(e.event_type, Coalesce(e.type, Some(Dash))),
     asset_identifier |-> Coalesce(OptGet(e.asset, "asset_identifier"), e.asset_identifier),
     sender |-> Coalesce(e.sender, e.from),
     recipient |-> Coalesce(e.recipient, e.to),
     amount |-> Coalesce(e.amount, e.value)]

explainTransactionCards(t, evs) ==
    LET picked == pickAmountAndRecipient(t)
        type == safeStr(Coalesce(t.tx_type, Some(Dash)))
        status == safeStr(Coalesce(t.tx_status, Some(Dash)))
        feeRate == cardsFeeRate(t)
        fee == IF Has(feeRate) THEN NumberToLocaleString(Val(feeRate)) \o S_unitMicroStx
               ELSE Dash
        block == IF Has(t.block_height) THEN safeStrOfNumber(t.block_height) ELSE Dash
        timeIso == Coalesce(t.burn_block_time_iso, t.receipt_time_iso)
        time == IF TruthyStr(timeIso) THEN DateToLocaleString(Val(timeIso)) ELSE Dash
        eventCount == IF Has(t.event_count) THEN NatToString(Val(t.event_count))
                      ELSE IF Has(evs) THEN NatToString(Len(Val(evs)))
                      ELSE Dash
        headline == IF type \in DOMAIN Headlines THEN Headlines[type]
                    ELSE "Stacks transaction"
        compactEvents ==
            IF Has(evs) /\ Len(Val(evs)) # 0
            THEN [i \in 1..(IF Len(Val(evs)) < MaxCompactEvents THEN Len(Val(evs))
                            ELSE MaxCompactEvents) |-> compactEvent(Val(evs)[i])]
            ELSE <<>>
    IN  Return(
        [headline |-> headline,
         cards |-> <<[title |-> "Sender", value |-> picked.sender],
                     [title |-> "Recipient / Target", value |-> picked.recipient],
                     [title |-> "Amount", value |-> picked.amountLabel],
                     [title |-> "Fee rate", value |-> fee],
                     [title |-> "Type", value |-> type],
                     [title |-> "Status", value |-> status],
                     [title |-> "Block height", value |-> block],
                     [title |-> "Time", value |-> time],
                     [title |-> "Events", value |-> eventCount]>>,
         events |-> compactEvents])

----------------------------------------------------------------------------
(* Specification of field resolution: recipient and fee, on transactions    *)
(* whose nested objects need not match the discriminator                    *)

SampleTimeIso == <<"2", "0", "2", "3", "-", "1", "1", "-", "1", "4", "T", "2", "2", ":", "1", "3", ":", "2", "0", ".", "0", "0", "0", "Z">>

SampleAsset == <<"S", "P", "1", "A", "B", "C", ".", "t", "o", "k", "e", "n", ":", ":", "t">>

StxRecipient == <<"S", "T", "2", "C", "Y", "5", "V", "3", "9", "N", "H", "D", "P", "W", "S", "X", "M", "W", "9", "Q", "D", "T", "3", "H", "C", "3", "G", "D", "6", "Q", "6", "X", "X", "4", "C", "F", "R", "K", "9", "A", "G">>

\* a nested object none of whose properties is present
NoNested ==
    [recipient_address |-> None, amount |-> None, memo |-> None,
     asset_identifier |-> None, sender_address |-> None, contract_id |-> None,
     function_name |-> None, function_args |-> None, source_code |-> None]

\* each nested object is absent, present without the property that names
\* the recipient, or present with it
ResolveTokenTransfers ==
    {None, Some([NoNested EXCEPT !.amount = Some(OneStx)]),
     Some([NoNested EXCEPT !.amount = Some(OneStx),
                           !.recipient_address = Some(RecipientAddress)])}

ResolveStxTransfers ==
    {None, Some([NoNested EXCEPT !.amount = Some(LargeAmount),
                                 !.recipient_address = Some(StxRecipient)])}

ResolveContractCalls ==
    {None, Some([NoNested EXCEPT !.function_name = Some(SampleFunction)]),
     Some([NoNested EXCEPT !.function_name = Some(SampleFunction),
                           !.contract_id = Some(SwapContractId)])}

ResolveSmartContracts ==
    {None, Some(NoNested), Some([NoNested EXCEPT !.contract_id = Some(DeployedContractId)])}

NoEvent ==
    [event_type |-> None, type |-> None, name |-> None, asset |-> None,
     asset_identifier |-> None, sender |-> None, from |-> None,
     recipient |-> None, to |-> None, amount |-> None, value |-> None,
     stx_amount |-> None, sender_address |-> None, recipient_address |-> None,
     contract_id |-> None, contract |-> None, token |-> None]

EventLists ==
    {None, Some(<<>>),
     Some(<<[NoEvent EXCEPT !.type = Some(S_stx_transfer), !.from = Some(LongAddress),
                            !.to = Some(RecipientAddress), !.value = Some(OneStx)],
            NoEvent>>)}

ResolveInputs ==
    {[NoTx EXCEPT !.tx_type = ty, !.tx_status = st, !.sender_address = Some(LongAddress),
                  !.fee_rate = fr, !.fee = fe, !.block_height = bh,
                  !.burn_block_time_iso = bh2,
                  !.token_transfer = tt, !.stx_transfer = sx,
                  !.contract_call = cc, !.smart_contract = sc] :
        ty \in {None, Some(S_token_transfer), Some(S_stx_transfer), Some(S_contract_call),
                Some(S_smart_contract), Some(S_coinbase)},
        st \in {None, Some(S_success)},
        fr \in {None, Some(SampleFeeRate)}, fe \in {None, Some(SampleFee)},
        bh \in BlockHeights, bh2 \in {None, Some(SampleTimeIso)},
        tt \in ResolveTokenTransfers, sx \in ResolveStxTransfers,
        cc \in ResolveContractCalls, sc \in ResolveSmartContracts}

InitResolve ==
    /\ tx \in ResolveInputs
    /\ events \in EventLists
    /\ tz = 0
    /\ locale \in {EnUS, DeDE}
    /\ called = "none"
    /\ result = None
    /\ IdleFormat

\* part_007: pickAmountAndRecipient(tx)
PickAmountAndRecipient ==
    /\ called = "none"
    /\ called' = "pickAmountAndRecipient"
    /\ result' = Some(Return(pickAmountAndRecipient(tx)))
    /\ UNCHANGED <<inputs, formatted, second, net, http, page>>

\* part_007: explainTransaction(tx, events)
ExplainTxCards ==
    /\ called = "none"
    /\ called' = "explainTransactionCards"
    /\ result' = Some(explainTransactionCards(tx, events))
    /\ UNCHANGED <<inputs, formatted, second, net, http, page>>

NextResolve == PickAmountAndRecipient \/ ExplainTxCards \/ ExplainTx

SpecResolve == InitResolve /\ [][NextResolve]_vars

----------------------------------------------------------------------------
(* Events: the compact events of part_007 and the event lists the two pages *)
(* render (src/unnamed/part_002, src/src/app/api/explain/route.ts)          *)

S_event == <<"e", "v", "e", "n", "t">>

S_print == <<"p", "r", "i", "n", "t">>

S_stx_asset == <<"s", "t", "x", "_", "a", "s", "s", "e", "t">>

S_smart_contract_log == <<"s", "m", "a", "r", "t", "_", "c", "o", "n", "t", "r", "a", "c", "t", "_", "l", "o", "g">>

\* a || b on optional strings: a when a is truthy, else b
OrElse(a, b) == IF TruthyStr(a) THEN a ELSE b

\* part_002: events.slice(0, 8)
MaxShownEventsV2 == 8

\* part_002: the callback of normalized.events.slice(0, 8).map
renderEventV2(ev) ==
    [kind |-> Val(OrElse(ev.event_type,
                  OrElse(ev.type, OrElse(ev.name, Some(S_event))))),
     amount |-> LET a == OrElse(ev.amount,
                             OrElse(ev.value, OptGet(ev.asset, "amount")))
                IN  IF TruthyStr(a) THEN a ELSE None,
     asset |-> LET a == OrElse(OptGet(ev.asset, "asset_id"),
                            OrElse(ev.asset_identifier, ev.token))
               IN  IF TruthyStr(a) THEN a ELSE None]

\* part_002: the Events card
renderEventsV2(evs) ==
    IF Has(evs) /\ Len(Val(evs)) > 0
    THEN [i \in 1..(IF Len(Val(evs)) < MaxShownEventsV2 THEN Len(Val(evs))
                    ELSE MaxShownEventsV2) |-> renderEventV2(Val(evs)[i])]
    ELSE <<>>

\* an optional string, or "" when it is falsy
OrEmpty(o) == IF TruthyStr(o) THEN Val(o) ELSE <<>>

\* route.ts: the callback of events.slice(0, 30).map
renderEvent(ev) ==
    [type |-> Val(OrElse(ev.event_type, OrElse(ev.type, Some(S_event)))),
     contract |-> OrEmpty(OrElse(ev.contract_id,
                              OrElse(OptGet(ev.asset, "contract_id"), ev.contract))),
     amount |-> OrEmpty(OrElse(ev.amount, OrElse(ev.value, ev.stx_amount))),
     sender |-> OrEmpty(OrElse(ev.sender, ev.sender_address)),
     recipient |-> OrEmpty(OrElse(ev.recipient, ev.recipient_address))]

\* route.ts: the Events section
renderEvents(evs) ==
    IF Has(evs) /\ Len(Val(evs)) > 0
    THEN [i \in 1..(IF Len(Val(evs)) < MaxCompactEvents THEN Len(Val(evs))
                    ELSE MaxCompactEvents) |-> renderEvent(Val(evs)[i])]
    ELSE <<>>

----------------------------------------------------------------------------
(* Specification of event normalization on bounded event lists *)

MaxEvents == 31

NoAsset ==
    [asset_identifier |-> None, amount |-> None, asset_id |-> None,
     contract_id |-> None]

\* one event for each way the aliases of the type can be present
EventKinds ==
    {NoEvent,
     [NoEvent EXCEPT !.name = Some(S_print)],
     [NoEvent EXCEPT !.type = Some(S_stx_asset), !.value = Some(OneStx),
                     !.from = Some(LongAddress), !.to = Some(RecipientAddress)],
     [NoEvent EXCEPT !.type = Some(S_stx_asset), !.name = Some(S_print)],
     [NoEvent EXCEPT !.event_type = Some(S_smart_contract_log),
                     !.type = Some(S_stx_asset), !.name = Some(S_print),
                     !.amount = Some(OneStx), !.sender = Some(LongAddress),
                     !.asset = Some([NoAsset EXCEPT !.asset_identifier = Some(SampleAsset)])]}

\* no list, the lists of one repeated event of every length up to
\* MaxEvents, and the lists of two events
EventInputs ==
    {None}
    \cup {Some([i \in 1..n |-> e]) : n \in 0..MaxEvents, e \in EventKinds}
    \cup {Some(<<a, b>>) : a \in EventKinds, b \in EventKinds}

EventTxs ==
    {[NoTx EXCEPT !.tx_type = Some(S_contract_call),
                  !.sender_address = Some(LongAddress)],
     [NoTx EXCEPT !.tx_type = Some(S_stx_transfer),
                  !.sender_address = Some(LongAddress), !.event_count = Some(2)]}

InitEvents ==
    /\ tx \in EventTxs
    /\ events \in EventInputs
    /\ tz = 0
    /\ locale = EnUS
    /\ called = "none"
    /\ result = None
    /\ IdleFormat

\* part_002: the Events card of the page
RenderEventsV2 ==
    /\ called = "none"
    /\ called' = "renderEventsV2"
    /\ result' = Some(Return(renderEventsV2(events)))
    /\ UNCHANGED <<inputs, formatted, second, net, http, page>>

\* route.ts: the Events section of the page
RenderEvents ==
    /\ called = "none"
    /\ called' = "renderEvents"
    /\ result' = Some(Return(renderEvents(events)))
    /\ UNCHANGED <<inputs, formatted, second, net, http, page>>

NextEvents == ExplainTxCards \/ RenderEventsV2 \/ RenderEvents

SpecEvents == InitEvents /\ [][NextEvents]_vars

----------------------------------------------------------------------------
(* Address shortening: shortAddr of part_006 and shorten of page.tsx *)

\* src/unnamed/part_006: shortAddr
shortAddrV1(addr) ==
    IF Len(addr) <= 14 THEN addr
    ELSE SliceTo(addr, 6) \o <<Ellipsis>> \o SliceLast(addr, 6)

\* String.prototype.slice(-n) for n >= 0: -0 is 0, and slice(0) is the
\* whole string
SliceNeg(s, n) == IF n = 0 THEN s ELSE SliceLast(s, n)

\* src/src/app/page.tsx: shorten(s, left, right)
shorten(s, left, right) ==
    IF s = <<>> THEN Dash
    ELSE IF Len(s) <= left + right + 3 THEN s
    ELSE SliceTo(s, left) \o <<Ellipsis>> \o SliceNeg(s, right)

----------------------------------------------------------------------------
(* Specification of address shortening, applied once and then again to its *)
(* own result                                                               *)

\* every prefix of an address, the empty string included
AddrPrefixes == {SubSeq(LongAddress, 1, n) : n \in 0..Len(LongAddress)}

\* the default (left, right) of shorten and those of its call sites
ShortenWidths == {<<10, 8>>, <<14, 10>>, <<18, 0>>, <<26, 0>>, <<12, 10>>}

ShortenInputs ==
    {[s |-> a, left |-> w[1], right |-> w[2]] : a \in AddrPrefixes, w \in ShortenWidths}

InitShorten ==
    /\ strArgs \in {Some(i) : i \in ShortenInputs}
    /\ tx = None
    /\ events = None
    /\ tz = 0
    /\ locale = EnUS
    /\ called = "none"
    /\ result = None
    /\ second = None
    /\ net = None
    /\ http = None
    /\ page = None
    /\ micro = <<>>
    /\ formatted = None

\* explainTx.ts: shortAddr(addr)
ShortAddr ==
    /\ called = "none"
    /\ called' = "shortAddr"
    /\ result' = Some(Return(shortAddr(Val(strArgs).s)))
    /\ UNCHANGED <<inputs, formatted, second, net, http, page>>

\* part_006: shortAddr(addr)
ShortAddrV1 ==
    /\ called = "none"
    /\ called' = "shortAddrV1"
    /\ result' = Some(Return(shortAddrV1(Val(strArgs).s)))
    /\ UNCHANGED <<inputs, formatted, second, net, http, page>>

\* page.tsx: shorten(s, left, right)
Shorten ==
    /\ called = "none"
    /\ called' = "shorten"
    /\ result' = Some(Return(shorten(Val(strArgs).s, Val(strArgs).left, Val(strArgs).right)))
    /\ UNCHANGED <<inputs, formatted, second, net, http, page>>

\* the same function applied to what it returned
ShortenAgain ==
    /\ called \in {"shortAddr", "shortAddrV1", "shorten"}
    /\ second = None
    /\ second' =
           Some([result |->
               CASE called = "shortAddr" -> shortAddr(Val(result).value)
                 [] called = "shortAddrV1" -> shortAddrV1(Val(result).value)
                 [] called = "shorten" ->
                        shorten(Val(result).value, Val(strArgs).left, Val(strArgs).right)])
    /\ UNCHANGED <<inputs, formatted, called, result, net, http, page>>

NextShorten == ShortAddr \/ ShortAddrV1 \/ Shorten \/ ShortenAgain

SpecShorten == InitShorten /\ [][NextShorten]_vars

----------------------------------------------------------------------------
(* src/unnamed/part_007: explainTransaction(rawTxHex), on the object that   *)
(* deserializeTransaction returns, and safeJson of route.ts                 *)

\* values of a decoded transaction, tagged with their JavaScript type
BigIntOf(digits) == [kind |-> "bigint", text |-> digits]
NumberOf(n) == [kind |-> "number", text |-> NatToString(n)]
StringOf(chars) == [kind |-> "string", text |-> chars]

S_ParsedTx == <<"P", "a", "r", "s", "e", "d", " ", "a", " ", "S", "t", "a", "c", "k", "s", " ", "t", "r", "a", "n", "s", "a", "c", "t", "i", "o", "n", ".">>

S_TypeColon == <<"T", "y", "p", "e", ":", " ">>

S_AnchoringColon == <<"A", "n", "c", "h", "o", "r", "i", "n", "g", ":", " ">>

\* safeToString(value): String(value), a string whatever the type
safeToString(value) == IF ~Has(value) THEN None ELSE Some(StringOf(Val(value).text))

\* explainTransaction(rawTxHex) from parseStacksTransaction's result on
\* (the deserializer is a library: its result is the input here)
explainTransactionRaw(parsedTx) ==
    LET anchorMode == safeToString(parsedTx.anchorMode)
        txType == safeToString(Coalesce(OptGet(parsedTx.payload, "payloadType"),
                                        OptGet(parsedTx.payload, "type")))
        spending == IF Has(parsedTx.auth) THEN Val(parsedTx.auth).spendingCondition
                    ELSE None
        fee == safeToString(OptGet(spending, "fee"))
        nonce == safeToString(OptGet(spending, "nonce"))
        truthy(o) == Has(o) /\ Val(o).text # <<>>
        summaryParts ==
            <<S_ParsedTx>>
            \o (IF truthy(txType) THEN <<S_TypeColon \o Val(txType).text \o <<".">>>>
                ELSE <<>>)
            \o (IF truthy(anchorMode)
                THEN <<S_AnchoringColon \o Val(anchorMode).text \o <<".">>>> ELSE <<>>)
    IN  Return([summary |-> Join(summaryParts, <<" ">>),
                details |-> [anchorMode |-> anchorMode, txType |-> txType,
                             fee |-> fee, nonce |-> nonce],
                parsedTx |-> parsedTx])

\* the replacer of safeJson: (_k, v) => typeof v === "bigint" ? v.toString() : v
replaceBigInt(o) ==
    IF Has(o) /\ Val(o).kind = "bigint" THEN Some(StringOf(Val(o).text)) ELSE o

\* safeJson(data): the JSON value that JSON.stringify writes with the
\* replacer, for an explanation returned by explainTransaction(rawTxHex)
safeJson(data) ==
    [data EXCEPT
        !.parsedTx =
            [@ EXCEPT
                !.anchorMode = replaceBigInt(@),
                !.auth =
                    IF ~Has(@) THEN @
                    ELSE Some([spendingCondition |->
                        IF ~Has(Val(@).spendingCondition) THEN None
                        ELSE Some([fee |-> replaceBigInt(Val(Val(@).spendingCondition).fee),
                                   nonce |-> replaceBigInt(
                                       Val(Val(@).spendingCondition).nonce)])])]]

----------------------------------------------------------------------------
(* Specification of the explanation of a binary-decoded transaction *)

\* 2^64, beyond every safe integer
HugeFee == <<"1", "8", "4", "4", "6", "7", "4", "4", "0", "7", "3", "7", "0", "9", "5", "5", "1", "6", "1", "6">>

SpendingConditions ==
    {None} \cup
    {Some([fee |-> f, nonce |-> n]) :
        f \in {None, Some(BigIntOf(SampleFeeRate)), Some(BigIntOf(HugeFee))},
        n \in {None, Some(BigIntOf(<<"7">>))}}

DecodedPayloads ==
    {None} \cup
    {Some([payloadType |-> pt, type |-> ty]) :
        pt \in {None, Some(NumberOf(0)), Some(NumberOf(2))},
        ty \in {None, Some(StringOf(S_token_transfer))}}

DecodedTxs ==
    {[anchorMode |-> am, payload |-> pl, auth |-> au] :
        am \in {None, Some(NumberOf(3))},
        pl \in DecodedPayloads,
        au \in {None} \cup {Some([spendingCondition |-> sc]) : sc \in SpendingConditions}}

InitDecoded ==
    /\ tx \in DecodedTxs
    /\ events = None
    /\ tz = 0
    /\ locale = EnUS
    /\ called = "none"
    /\ result = None
    /\ IdleFormat

\* part_007: explainTransaction(rawTxHex), after the deserializer
ExplainRawTx ==
    /\ called = "none"
    /\ called' = "explainTransactionRaw"
    /\ result' = Some(explainTransactionRaw(tx))
    /\ UNCHANGED <<inputs, formatted, second, net, http, page>>

\* route.ts: safeJson(data) of the explanation
SafeJson ==
    /\ called = "explainTransactionRaw"
    /\ second = None
    /\ second' = Some([result |-> safeJson(Val(result).value)])
    /\ UNCHANGED <<inputs, formatted, called, result, net, http, page>>

NextDecoded == ExplainRawTx \/ SafeJson

SpecDecoded == InitDecoded /\ [][NextDecoded]_vars

----------------------------------------------------------------------------
(* Specification of two invocations of explainTransaction on the same       *)
(* transaction, the process's time zone being free to differ between them   *)

\* hours east of UTC: UTC and Asia/Tokyo
Zones == {0, 9}

TwiceInputs ==
    {[NoTx EXCEPT !.tx_type = ty, !.tx_status = st,
                  !.sender_address = Some(LongAddress),
                  !.block_time = bt, !.token_transfer = tt] :
        ty \in {Some(S_token_transfer), Some(S_contract_call), Some(S_coinbase)},
        st \in {None, Some(S_success)},
        bt \in {None, Some(1700000000)},
        tt \in ResolveTokenTransfers}

InitTwice ==
    /\ tx \in TwiceInputs
    /\ events = None
    /\ tz \in Zones
    /\ locale = EnUS
    /\ called = "none"
    /\ result = None
    /\ IdleFormat

\* the next invocation runs in a process whose TZ differs
ChangeTimeZone ==
    /\ called = "explainTransaction"
    /\ second = None
    /\ tz' \in Zones \ {tz}
    /\ UNCHANGED <<micro, formatted, tx, events, locale, called, result, strArgs,
                   second, net, http, page>>

\* explainTx.ts: explainTransaction(tx), a second time on the same tx
ExplainTxAgain ==
    /\ called = "explainTransaction"
    /\ second = None
    /\ second' = Some([result |-> explainTransaction(tx)])
    /\ UNCHANGED <<inputs, formatted, called, result, net, http, page>>

NextTwice == ExplainTx \/ ChangeTimeZone \/ ExplainTxAgain

SpecTwice == InitTwice /\ [][NextTwice]_vars

----------------------------------------------------------------------------
(* src/src/utils/parseStacksTx.ts: fetchTxJson and resolveNetworkAndFetchTx *)

Networks == {"mainnet", "testnet"}

getHiroBase(network) ==
    IF network = "mainnet" THEN "https://api.hiro.so" ELSE "https://api.testnet.hiro.so"

\* a thrown error object
ThrowErr(e) == [threw |-> TRUE, value |-> e]

\* what a network answers to the GET: an HTTP status, or no response at
\* all (fetch rejects) when status is None
Answers == {[status |-> st] : st \in {Some(200), Some(404), Some(429), Some(500), None}}

\* res.ok
ResponseOk(answer) == Has(answer.status) /\ Val(answer.status) \in 200..299

\* fetchTxJson(txid, network): the JSON body, or the error it throws
fetchTxJson(txid, answer) ==
    IF ~Has(answer.status)
    THEN ThrowErr([message |-> "fetch failed", status |-> None])
    ELSE IF ~ResponseOk(answer)
    THEN ThrowErr([message |-> "Could not fetch tx JSON. Status: ",
                   status |-> answer.status])
    ELSE Return([tx_id |-> txid])

\* the order in which always mainnet is tried first
fetchOrderMainnetFirst(preferred) == <<"mainnet", "testnet">>

\* const order = preferred ? [preferred, the other] : ["mainnet", "testnet"]
fetchOrder(preferred) ==
    IF Has(preferred)
    THEN <<Val(preferred), IF Val(preferred) = "mainnet" THEN "testnet" ELSE "mainnet">>
    ELSE <<"mainnet", "testnet">>

\* a catch block that gives up unless the error is not-found
keepTryingOnNotFound(e) == e.status = Some(404)

\* the catch block: lastErr = e, and the loop goes on whatever e.status is
\* (the body of `if (e?.status !== 404)` is empty)
keepTrying(e) == TRUE

\* serializeError(err): the JSON round trip keeps the own enumerable
\* properties of the error (status), not its message
serializeError(err) ==
    IF Has(err) THEN Some([status |-> Val(err).status]) ELSE None

\* the error thrown after the loop
bothFailedError(lastErr) ==
    [message |-> IF OptGet(lastErr, "status") = Some(404)
                 THEN "Transaction not found on mainnet or testnet (Hiro)."
                 ELSE "Failed to fetch transaction from Hiro.",
     status |-> IF TruthyNum(OptGet(lastErr, "status")) THEN Val(Val(lastErr).status)
                ELSE 500,
     lastError |-> serializeError(lastErr)]

----------------------------------------------------------------------------
(* Specification of one call of resolveNetworkAndFetchTx against two        *)
(* networks whose answers are fixed but unknown to it                       *)

InitFetch ==
    /\ \E pref \in {None} \cup {Some(n) : n \in Networks} :
       \E ans \in [Networks -> Answers] :
           net = Some([preferred |-> pref, answers |-> ans, order |-> fetchOrder(pref),
                       i |-> 1, pc |-> "loop", pending |-> {}, attempts |-> <<>>,
                       failures |-> <<>>, lastErr |-> None])
    /\ tx = None
    /\ events = None
    /\ tz = 0
    /\ locale = EnUS
    /\ called = "none"
    /\ result = None
    /\ strArgs = None
    /\ second = None
    /\ http = None
    /\ page = None
    /\ micro = <<>>
    /\ formatted = None

\* for (const net of order) { try { ... await fetchTxJson(txid, net, signal)
StartAttempt ==
    /\ Has(net) /\ Val(net).pc = "loop" /\ Val(net).i <= Len(Val(net).order)
    /\ net' = Some([Val(net) EXCEPT
                       !.pc = "await",
                       !.pending = @ \cup {Val(net).order[Val(net).i]},
                       !.attempts = Append(@, Val(net).order[Val(net).i])])
    /\ UNCHANGED <<inputs, formatted, called, result, second, http, page>>

\* the awaited fetchTxJson resolves: return { network, apiBase, tx, txid }
AttemptReturns ==
    /\ Has(net) /\ Val(net).pc = "await"
    /\ \E w \in Val(net).pending :
           LET got == fetchTxJson(SampleTxId, Val(net).answers[w])
           IN  /\ ~got.threw
               /\ result' = Some(Return([network |-> w, apiBase |-> getHiroBase(w),
                                         tx |-> got.value, txid |-> SampleTxId]))
               /\ called' = "resolveNetworkAndFetchTx"
               /\ net' = Some([Val(net) EXCEPT !.pc = "done", !.pending = @ \ {w}])
    /\ UNCHANGED <<inputs, formatted, second, http, page>>

\* the awaited fetchTxJson rejects: catch (e) { lastErr = e; ... }
AttemptThrows ==
    /\ Has(net) /\ Val(net).pc = "await"
    /\ \E w \in Val(net).pending :
           LET got == fetchTxJson(SampleTxId, Val(net).answers[w])
           IN  /\ got.threw
               /\ net' = Some([Val(net) EXCEPT
                                  !.pc = "loop",
                                  !.pending = @ \ {w},
                                  !.failures = Append(@, got.value.status),
                                  !.lastErr = Some(got.value),
                                  !.i = IF keepTrying(got.value) THEN @ + 1
                                        ELSE Len(Val(net).order) + 1])
    /\ UNCHANGED <<inputs, formatted, called, result, second, http, page>>

\* after the loop: throw the error built from lastErr
BothFailed ==
    /\ Has(net) /\ Val(net).pc = "loop" /\ Val(net).i > Len(Val(net).order)
    /\ result' = Some(ThrowErr(bothFailedError(Val(net).lastErr)))
    /\ called' = "resolveNetworkAndFetchTx"
    /\ net' = Some([Val(net) EXCEPT !.pc = "done"])
    /\ UNCHANGED <<inputs, formatted, second, http, page>>

NextFetch == StartAttempt \/ AttemptReturns \/ AttemptThrows \/ BothFailed

SpecFetch == InitFetch /\ [][NextFetch]_vars

----------------------------------------------------------------------------
(* src/lib/explainParsedTx.ts: explainParsedTx, on what parseStacksTx returns *)

S_StillPending == <<"T", "h", "i", "s", " ", "t", "r", "a", "n", "s", "a", "c", "t", "i", "o", "n", " ", "i", "s", " ", "s", "t", "i", "l", "l", " ", "p", "e", "n", "d", "i", "n", "g", " ", "a", "n", "d", " ", "h", "a", "s", " ", "n", "o", "t", " ", "y", "e", "t", " ", "b", "e", "e", "n", " ", "c", "o", "n", "f", "i", "r", "m", "e", "d", " ", "o", "n", " ", "t", "h", "e", " ", "S", "t", "a", "c", "k", "s", " ", "b", "l", "o", "c", "k", "c", "h", "a", "i", "n", ".">>

S_FailedReason == <<"T", "h", "i", "s", " ", "t", "r", "a", "n", "s", "a", "c", "t", "i", "o", "n", " ", "f", "a", "i", "l", "e", "d", ".", " ", "R", "e", "a", "s", "o", "n", ":", " ">>

S_UnknownErrorDot == <<"U", "n", "k", "n", "o", "w", "n", " ", "e", "r", "r", "o", "r", ".">>

S_WasSuccessful == <<"T", "h", "i", "s", " ", "t", "r", "a", "n", "s", "a", "c", "t", "i", "o", "n", " ", "w", "a", "s", " ", "s", "u", "c", "c", "e", "s", "s", "f", "u", "l", ".">>

S_TheSender == <<"T", "h", "e", " ", "s", "e", "n", "d", "e", "r", " ", "(">>

S_calledTheFunction == <<")", " ", "c", "a", "l", "l", "e", "d", " ", "t", "h", "e", " ", "f", "u", "n", "c", "t", "i", "o", "n", " ", "\"">>

S_onTheContract == <<"\"", " ", "o", "n", " ", "t", "h", "e", " ", "c", "o", "n", "t", "r", "a", "c", "t", " ", "\"">>

S_withArguments == <<"\"", " ", "w", "i", "t", "h", " ", "a", "r", "g", "u", "m", "e", "n", "t", "s", ":", " ">>

S_SuccessfullyTransferred == <<"T", "h", "i", "s", " ", "t", "r", "a", "n", "s", "a", "c", "t", "i", "o", "n", " ", "s", "u", "c", "c", "e", "s", "s", "f", "u", "l", "l", "y", " ", "t", "r", "a", "n", "s", "f", "e", "r", "r", "e", "d", " ", "t", "o", "k", "e", "n", "s", " ", "f", "r", "o", "m", " ">>

S_TypeLine == <<"T", "y", "p", "e", ":", " ">>

S_SenderLine == <<"S", "e", "n", "d", "e", "r", ":", " ">>

S_wasSuccessfulWords == <<"w", "a", "s", " ", "s", "u", "c", "c", "e", "s", "s", "f", "u", "l">>

S_successfullyTransferredWords == <<"s", "u", "c", "c", "e", "s", "s", "f", "u", "l", "l", "y", " ", "t", "r", "a", "n", "s", "f", "e", "r", "r", "e", "d">>

NewLine == <<"\n">>

\* parsed.error, a property only the first parseStacksTx sets
ErrorOf(parsed) == IF "error" \in DOMAIN parsed THEN parsed.error ELSE None

\* args.join(", "): an undefined element joins as the empty string
JoinArgs(args) ==
    Join([i \in 1..Len(args) |-> IF Has(args[i]) THEN Val(args[i]) ELSE <<>>],
         S_commaSpace)

\* the type-specific and the fallback explanations, lines 12-28
explainSuccessful(parsed) ==
    IF parsed.type = Some(S_contract_call) /\ Has(parsed.contractCall)
    THEN LET cc == Val(parsed.contractCall)
         IN  S_WasSuccessful \o NewLine \o S_TheSender \o Template(parsed.sender)
                 \o S_calledTheFunction \o Template(cc.function)
                 \o S_onTheContract \o Template(cc.contract)
                 \o S_withArguments \o JoinArgs(cc.args) \o <<".">>
    ELSE IF parsed.type = Some(S_token_transfer)
    THEN S_SuccessfullyTransferred \o Template(parsed.sender) \o <<".">>
    ELSE S_WasSuccessful \o NewLine \o S_TypeLine \o Template(parsed.type) \o <<".">>
             \o NewLine \o S_SenderLine \o Template(parsed.sender) \o <<".">>

\* the failed test placed before the pending test
explainParsedTxFailedFirst(parsed) ==
    IF parsed.status = Some(S_failed)
    THEN S_FailedReason \o (IF TruthyStr(ErrorOf(parsed)) THEN Val(ErrorOf(parsed))
                            ELSE S_UnknownErrorDot)
    ELSE IF parsed.blockHeight = StringValue(S_Pending)
    THEN S_StillPending
    ELSE explainSuccessful(parsed)

\* lines 1-29
explainParsedTx(parsed) ==
    IF parsed.blockHeight = StringValue(S_Pending)
    THEN S_StillPending
    ELSE IF parsed.status = Some(S_failed)
    THEN S_FailedReason \o (IF TruthyStr(ErrorOf(parsed)) THEN Val(ErrorOf(parsed))
                            ELSE S_UnknownErrorDot)
    ELSE explainSuccessful(parsed)

----------------------------------------------------------------------------
(* Specification of parseStacksTx followed by explainParsedTx *)

S_dropped == <<"d", "r", "o", "p", "p", "e", "d", "_", "r", "e", "p", "l", "a", "c", "e", "_", "b", "y", "_", "f", "e", "e">>

ParsedStatuses ==
    {None, Some(S_success), Some(S_failed), Some(S_abort_by_response),
     Some(S_abort_by_post_condition), Some(S_dropped)}

ParsedInputs ==
    {[NoTx EXCEPT !.tx_type = ty, !.tx_id = Some(SampleTxId), !.tx_status = st,
                  !.sender_address = sd, !.fee_rate = Some(SampleFeeRate),
                  !.block_height = bh, !.tx_result = tr,
                  !.token_transfer = IF ty = Some(S_token_transfer)
                                     THEN Some([recipient_address |-> Some(RecipientAddress),
                                                amount |-> Some(OneStx),
                                                asset_identifier |-> None])
                                     ELSE None,
                  !.contract_call = cc] :
        ty \in {None, Some(S_token_transfer), Some(S_contract_call), Some(S_coinbase)},
        st \in ParsedStatuses,
        sd \in {None, Some(LongAddress)}, bh \in BlockHeights, tr \in TxResults,
        cc \in {c \in ParseContractCalls :
                    c # None => Val(c).contract_id # None /\ Val(c).function_name # None}}

InitParsed ==
    /\ tx \in ParsedInputs
    /\ events = None
    /\ tz = 0
    /\ locale = EnUS
    /\ called = "none"
    /\ result = None
    /\ IdleFormat

\* explainParsedTx on what either parseStacksTx returned
ExplainParsedTx ==
    /\ called \in {"parseStacksTxV1", "parseStacksTxV2"}
    /\ ~Val(result).threw
    /\ second = None
    /\ second' = Some(explainParsedTx(Val(result).value))
    /\ UNCHANGED <<inputs, formatted, called, result, net, http, page>>

NextParsed == ParseStacksTxV1 \/ ParseStacksTxV2 \/ ExplainParsedTx

SpecParsed == InitParsed /\ [][NextParsed]_vars

----------------------------------------------------------------------------
(* Transaction ids: trim, case, the 0x prefix and the validity tests *)

HexDigits ==
    <<"0", "1", "2", "3", "4", "5", "6", "7", "8", "9", "a", "b", "c", "d", "e", "f">>

LowerLetters ==
    <<"a", "b", "c", "d", "e", "f", "g", "h", "i", "j", "k", "l", "m",
      "n", "o", "p", "q", "r", "s", "t", "u", "v", "w", "x", "y", "z">>

UpperLetters ==
    <<"A", "B", "C", "D", "E", "F", "G", "H", "I", "J", "K", "L", "M",
      "N", "O", "P", "Q", "R", "S", "T", "U", "V", "W", "X", "Y", "Z">>

\* String.prototype.toLowerCase and toUpperCase, character by character
toLowerCase(s) ==
    [i \in 1..Len(s) |->
        IF \E k \in 1..Len(UpperLetters) : UpperLetters[k] = s[i]
        THEN LowerLetters[CHOOSE k \in 1..Len(UpperLetters) : UpperLetters[k] = s[i]]
        ELSE s[i]]

toUpperCase(s) ==
    [i \in 1..Len(s) |->
        IF \E k \in 1..Len(LowerLetters) : LowerLetters[k] = s[i]
        THEN UpperLetters[CHOOSE k \in 1..Len(LowerLetters) : LowerLetters[k] = s[i]]
        ELSE s[i]]

\* String.prototype.trim
RECURSIVE trimStart(_)
trimStart(s) == IF s # <<>> /\ s[1] \in SpaceChars THEN trimStart(Tail(s)) ELSE s

RECURSIVE trimEnd(_)
trimEnd(s) ==
    IF s # <<>> /\ s[Len(s)] \in SpaceChars THEN trimEnd(SubSeq(s, 1, Len(s) - 1)) ELSE s

trim(s) == trimEnd(trimStart(s))

\* String.prototype.startsWith
startsWith(s, p) == Len(s) >= Len(p) /\ SubSeq(s, 1, Len(p)) = p

S_0x == <<"0", "x">>

\* the length {64} of the regular expressions that test a transaction id
TxidLength == 64

LowerHexChars == {HexDigits[i] : i \in 1..Len(HexDigits)}

\* String(body?.txid ?? ""), (input || "")
StringOrEmpty(o) == IF Has(o) THEN Val(o) ELSE <<>>

\* src/src/utils/parseStacksTx.ts lines 18-22: the prefix test without the slice
normalizeTxidKeepPrefix(input) == toLowerCase(trim(StringOrEmpty(input)))

\* src/src/utils/parseStacksTx.ts lines 18-22
normalizeTxid(input) ==
    LET raw == trim(StringOrEmpty(input))
        no0x == IF startsWith(toLowerCase(raw), S_0x) THEN SliceFrom(raw, 2) ELSE raw
    IN  toLowerCase(no0x)

\* src/src/utils/parseStacksTx.ts lines 27-29: /^[0-9a-f]{64}$/.test(txid)
isValidTxid(txid) == Len(txid) = TxidLength /\ AllIn(txid, LowerHexChars)

\* route.ts lines 17-21 with a pattern that does not fix the length
isValidTxidRouteAnyLength(input) ==
    LET s == toLowerCase(trim(input))
        cleaned == IF startsWith(s, S_0x) THEN SliceFrom(s, 2) ELSE s
    IN  cleaned # <<>> /\ AllIn(cleaned, LowerHexChars)

\* route.ts lines 17-21 without the slice of the prefix
isValidTxidRouteNoPrefix(input) ==
    LET s == toLowerCase(trim(input))
    IN  Len(s) = TxidLength /\ AllIn(s, LowerHexChars)

\* route.ts lines 17-21, the handler's isValidTxid
isValidTxidRoute(input) ==
    LET s == toLowerCase(trim(input))
        cleaned == IF startsWith(s, S_0x) THEN SliceFrom(s, 2) ELSE s
    IN  Len(cleaned) = TxidLength /\ AllIn(cleaned, LowerHexChars)

\* route.ts lines 23-26, the handler's normalizeTxid
normalizeTxidRoute(input) ==
    LET s == toLowerCase(trim(input))
    IN  IF startsWith(s, S_0x) THEN s ELSE S_0x \o s

\* part_001 lines 5-8: /^[0-9a-fA-F]{64}$/.test(txid.trim())
isValidTxidV1(txid) == Len(trim(txid)) = TxidLength /\ AllIn(trim(txid), HexChars)

\* route.ts lines 170-175, the page's normalizeTxid
normalizeTxidPage(input) ==
    LET trimmed == trim(StringOrEmpty(input))
        no0x == IF startsWith(toLowerCase(trimmed), S_0x) THEN SliceFrom(trimmed, 2)
                ELSE trimmed
        hex == toLowerCase(no0x)
    IN  [trimmed |-> trimmed, hex |-> hex, with0x |-> S_0x \o hex]

\* route.ts lines 177-179: /^[0-9a-f]{64}$/.test(hex)
isValidTxidHex64(hex) == Len(hex) = TxidLength /\ AllIn(hex, LowerHexChars)

\* transaction ids as a user or a client may write them
Hex64 == [i \in 1..TxidLength |-> HexDigits[((i * 7) % 16) + 1]]

Hex63 == SubSeq(Hex64, 1, TxidLength - 1)

S_0X == <<"0", "X">>

TxidStrings ==
    {<<>>, Hex64, S_0x \o Hex64, S_0X \o Hex64, toUpperCase(Hex64),
     S_0x \o toUpperCase(Hex64), <<" ", "\t">> \o Hex64 \o <<"\n">>,
     <<" ">> \o S_0x \o Hex64 \o <<" ">>, Hex63, Hex64 \o <<"0">>, Hex63 \o <<"g">>,
     S_0x \o Hex63 \o <<"z">>, S_0x, S_0x \o S_0x \o Hex64, S_0x \o <<" ">> \o Hex64,
     S_0X \o S_0x \o SubSeq(Hex64, 1, TxidLength - 2), Hex64 \o <<" ">> \o Hex64}

----------------------------------------------------------------------------
(* Specification of explainTransaction on transfers around the risk thresholds *)

S_pending == <<"p", "e", "n", "d", "i", "n", "g">>

\* amounts in micro-STX in increasing order: 0, 10^11 - 1, 10^11, 10^11 + 1,
\* 10^12 - 1, 10^12, 10^12 + 1, 5 * 10^12
RiskAmounts ==
    << <<"0">>,
       <<"9", "9", "9", "9", "9", "9", "9", "9", "9", "9", "9">>,
       <<"1", "0", "0", "0", "0", "0", "0", "0", "0", "0", "0", "0">>,
       <<"1", "0", "0", "0", "0", "0", "0", "0", "0", "0", "0", "1">>,
       <<"9", "9", "9", "9", "9", "9", "9", "9", "9", "9", "9", "9">>,
       <<"1", "0", "0", "0", "0", "0", "0", "0", "0", "0", "0", "0", "0">>,
       <<"1", "0", "0", "0", "0", "0", "0", "0", "0", "0", "0", "0", "1">>,
       <<"5", "0", "0", "0", "0", "0", "0", "0", "0", "0", "0", "0", "0">> >>

RiskStatuses ==
    {None, Some(S_success), Some(S_pending), Some(S_failed), Some(S_abort_by_response),
     Some(S_abort_by_post_condition)}

RiskTxs ==
    {[tx_type |-> Some(S_token_transfer), tx_id |-> None, tx_status |-> st,
      sender_address |-> Some(LongAddress), fee_rate |-> fr, fee |-> None,
      nonce |-> None, block_height |-> bh, block_time_iso |-> None,
      block_time |-> None,
      token_transfer |-> Some([recipient_address |-> Some(RecipientAddress),
                               amount |-> Some(RiskAmounts[i]), memo |-> None]),
      contract_call |-> None, smart_contract |-> None, stx_transfer |-> None] :
        st \in RiskStatuses, fr \in {None, Some(SampleFeeRate)}, bh \in BlockHeights,
        i \in 1..Len(RiskAmounts)}

InitRisk ==
    /\ tx \in RiskTxs
    /\ events = None
    /\ tz = 0
    /\ locale = EnUS
    /\ called = "none"
    /\ result = None
    /\ IdleFormat

\* explainTx.ts: explainTransaction(tx), which calls determineRiskLevel
ExplainRisk ==
    /\ called = "none"
    /\ called' = "explainTransaction"
    /\ result' = Some(explainTransaction(tx))
    /\ UNCHANGED <<inputs, formatted, second, net, http, page>>

NextRisk == ExplainRisk

SpecRisk == InitRisk /\ [][NextRisk]_vars

----------------------------------------------------------------------------
(* Specification of normalizeTxid of src/src/utils/parseStacksTx.ts *)

NormalizeInputs ==
    {None} \cup
    {Some(lead \o prefix \o body \o trail) :
        lead \in {<<>>, <<" ">>, <<"\t", " ">>},
        prefix \in {<<>>, S_0x, S_0X, S_0x \o S_0x, S_0X \o S_0x, S_0x \o <<" ">>},
        body \in {<<>>, Hex64, toUpperCase(Hex64), Hex63, Hex63 \o <<"G">>},
        trail \in {<<>>, <<" ", "\n">>}}

InitNormalize ==
    /\ strArgs \in {Some([input |-> i]) : i \in NormalizeInputs}
    /\ tx = NoTx
    /\ events = None
    /\ tz = 0
    /\ locale = EnUS
    /\ called = "none"
    /\ result = None
    /\ micro = <<>>
    /\ formatted = None
    /\ second = None
    /\ net = None
    /\ http = None
    /\ page = None

\* normalizeTxid(input)
NormalizeTxid ==
    /\ called = "none"
    /\ called' = "normalizeTxid"
    /\ result' = Some(Return(normalizeTxid(Val(strArgs).input)))
    /\ UNCHANGED <<inputs, formatted, second, net, http, page>>

\* normalizeTxid applied to what normalizeTxid returned
NormalizeTxidAgain ==
    /\ called = "normalizeTxid"
    /\ second = None
    /\ second' = Some(normalizeTxid(Some(Val(result).value)))
    /\ UNCHANGED <<inputs, formatted, called, result, net, http, page>>

NextNormalize == NormalizeTxid \/ NormalizeTxidAgain

SpecNormalize == InitNormalize /\ [][NextNormalize]_vars

----------------------------------------------------------------------------
(* The POST handlers of /api/explain: route.ts lines 28-115 and part_001 *)

\* the responses the handlers build, by status and error text
InvalidTxid == [status |-> 400, error |-> "Invalid txid", ok |-> FALSE, explanation |-> None]

CouldNotFetch ==
    [status |-> 400, error |-> "Could not fetch raw tx", ok |-> FALSE, explanation |-> None]

UnexpectedShape ==
    [status |-> 500, error |-> "Unexpected raw tx shape", ok |-> FALSE,
     explanation |-> None]

ServerError ==
    [status |-> 500, error |-> "Server error while explaining transaction.",
     ok |-> FALSE, explanation |-> None]

Explained(explanation) ==
    [status |-> 200, error |-> "", ok |-> TRUE, explanation |-> Some(explanation)]

\* a raw transaction in hex that deserializes, and one that does not
GoodRawHex == <<"0", "x", "8", "0", "8", "0", "0", "0", "0", "0", "0", "0", "0", "4", "0", "0">>

BadRawHex == <<"n", "o", "t", "-", "h", "e", "x">>

\* the object deserializeTransaction returns for GoodRawHex
SampleDecodedTx ==
    [anchorMode |-> Some(NumberOf(3)),
     payload |-> Some([payloadType |-> Some(NumberOf(0)), type |-> None]),
     auth |-> Some([spendingCondition |->
                        Some([fee |-> Some(BigIntOf(SampleFeeRate)),
                              nonce |-> Some(BigIntOf(<<"7">>))])])]

\* part_005 lines 4-8: deserializeTransaction throws on bytes that are no
\* transaction
parseStacksTransaction(rawTxHex) ==
    LET hex == IF startsWith(rawTxHex, S_0x) THEN SliceFrom(rawTxHex, 2) ELSE rawTxHex
    IN  IF hex = SliceFrom(GoodRawHex, 2) THEN Return(SampleDecodedTx)
        ELSE ThrowErr("deserialize")

\* truthiness of a JSON value that is a string or a number
TruthyValue(o) ==
    /\ Has(o)
    /\ Val(o).kind = "string" => Val(o).text # <<>>
    /\ Val(o).kind = "number" => Val(o).text # <<"0">>

\* route.ts lines 71-72: rawJson?.raw_tx || rawJson?.rawTx || rawJson?.tx || rawJson?.raw || ""
rawTxHexOf(rawJson) ==
    IF TruthyValue(rawJson.raw_tx) THEN Val(rawJson.raw_tx)
    ELSE IF TruthyValue(rawJson.rawTx) THEN Val(rawJson.rawTx)
    ELSE IF TruthyValue(rawJson.tx) THEN Val(rawJson.tx)
    ELSE IF TruthyValue(rawJson.raw) THEN Val(rawJson.raw)
    ELSE StringOf(<<>>)

\* route.ts line 74: !rawTxHex || typeof rawTxHex !== "string"
unexpectedShape(rawTxHex) == ~TruthyValue(Some(rawTxHex)) \/ rawTxHex.kind # "string"

\* the status test left out
upstreamFailedNever(answer) == FALSE

\* route.ts line 54: !rawRes.ok
upstreamFailed(answer) == ~answer.ok

\* route.ts line 32
networkOf(body) == IF body.network = Some("testnet") THEN "testnet" ELSE "mainnet"

\* route.ts lines 47-48
baseOf(network) ==
    IF network = "testnet" THEN "https://api.testnet.hiro.so" ELSE "https://api.hiro.so"

\* route.ts lines 29-52, up to the fetch: the response returned at once, or
\* the request sent upstream.  A body that is not JSON makes req.json()
\* throw, which the catch of lines 104-114 answers.
routeReceive(body) ==
    IF ~Has(body) THEN [response |-> Some(ServerError), fetch |-> None]
    ELSE LET txidInput == trim(StringOrEmpty(Val(body).txid))
         IN  IF txidInput = <<>> \/ ~isValidTxidRoute(txidInput)
             THEN [response |-> Some(InvalidTxid), fetch |-> None]
             ELSE [response |-> None,
                   fetch |-> Some([base |-> baseOf(networkOf(Val(body))),
                                   txid |-> normalizeTxidRoute(txidInput)])]

\* route.ts lines 52-92, from the upstream answer to the call of
\* explainTransaction: the error response returned, or the parsed
\* transaction the normalizer is invoked on
routeAfterFetch(answer) ==
    IF answer.kind = "rejects" THEN [response |-> Some(ServerError), invoke |-> None]
    ELSE IF upstreamFailed(answer)
    THEN [response |-> Some(CouldNotFetch), invoke |-> None]
    ELSE IF ~Has(answer.json) THEN [response |-> Some(ServerError), invoke |-> None]
    ELSE IF unexpectedShape(rawTxHexOf(Val(answer.json)))
    THEN [response |-> Some(UnexpectedShape), invoke |-> None]
    ELSE LET parsed == parseStacksTransaction(rawTxHexOf(Val(answer.json)).text)
         IN  IF parsed.threw THEN [response |-> Some(ServerError), invoke |-> None]
             ELSE [response |-> None, invoke |-> Some(parsed.value)]

\* route.ts lines 88-103: explainTransaction of explainTx.ts on the decoded
\* object, which has none of the properties explainTransaction reads
routeExplained(parsed) ==
    LET explained == explainTransaction(NoTx)
    IN  IF explained.threw THEN ServerError ELSE Explained(explained.value.summary)

\* part_001 lines 12-21, up to the fetch; req.json().catch(() => ({}))
\* turns a body that is not JSON into {}
receiveV1(body) ==
    LET txid == trim(StringOrEmpty(IF Has(body) THEN Val(body).txid ELSE None))
    IN  IF txid = <<>> \/ ~isValidTxidV1(txid)
        THEN [response |-> Some([InvalidTxid EXCEPT
                                     !.error = "Invalid txid. Expected 64 hex characters."]),
              fetch |-> None]
        ELSE [response |-> None,
              fetch |-> Some([base |-> "https://api.hiro.so", txid |-> txid])]

\* part_001 lines 27-55: the body is read as text and handed to
\* parseStacksTx, which reads properties of it that a string does not have,
\* and explainParsedTx explains the result
afterFetchV1(answer) ==
    IF answer.kind = "rejects" THEN [ServerError EXCEPT !.error = "Server error"]
    ELSE IF ~answer.ok
    THEN [status |-> 404, error |-> "Could not fetch raw tx", ok |-> FALSE,
          explanation |-> None]
    ELSE LET parsedTx == parseStacksTxV1(NoTx)
         IN  IF parsedTx.threw THEN [ServerError EXCEPT !.error = "Server error"]
             ELSE Explained(explainParsedTx(parsedTx.value))

----------------------------------------------------------------------------
(* Specification of one request to a POST handler *)

Hex64Alt == [i \in 1..TxidLength |-> HexDigits[((i * 11 + 3) % 16) + 1]]

\* the JSON bodies a client may send; None is a body that is not JSON
RequestBodies ==
    {None} \cup
    {Some([txid |-> t, network |-> n]) :
        t \in {None, Some(S_0x \o Hex64Alt), Some(toUpperCase(Hex64Alt))}
                  \cup {Some(s) : s \in TxidStrings},
        n \in {None, Some("testnet")}}

NoRawJson == [raw_tx |-> None, rawTx |-> None, tx |-> None, raw |-> None]

\* the JSON bodies of the raw endpoint
RawJsons ==
    {NoRawJson,
     [NoRawJson EXCEPT !.raw_tx = Some(StringOf(GoodRawHex))],
     [NoRawJson EXCEPT !.raw_tx = Some(StringOf(<<>>)), !.raw = Some(StringOf(GoodRawHex))],
     [NoRawJson EXCEPT !.raw_tx = Some(NumberOf(5))],
     [NoRawJson EXCEPT !.raw_tx = Some(NumberOf(0)), !.tx = Some(StringOf(BadRawHex))],
     [NoRawJson EXCEPT !.rawTx = Some(StringOf(SliceFrom(GoodRawHex, 2)))]}

\* what the upstream does: fetch rejects, or a response with a status whose
\* body is JSON (json present) or not
UpstreamAnswers ==
    {[kind |-> "rejects", ok |-> FALSE, status |-> 0, json |-> None]} \cup
    {[kind |-> "response", ok |-> FALSE, status |-> st, json |-> j] :
        st \in {404, 500},
        j \in {None, Some(NoRawJson),
               Some([NoRawJson EXCEPT !.raw_tx = Some(StringOf(GoodRawHex))])}} \cup
    {[kind |-> "response", ok |-> TRUE, status |-> 200, json |-> j] :
        j \in {None} \cup {Some(r) : r \in RawJsons}}

InitPost ==
    /\ http \in {Some([handler |-> h, body |-> b, pc |-> "received", fetched |-> <<>>,
                       answer |-> None, invoked |-> 0, parsed |-> None,
                       responses |-> <<>>]) :
                    h \in {"route", "part_001"}, b \in RequestBodies}
    /\ tx = NoTx
    /\ events = None
    /\ tz = 0
    /\ locale = EnUS
    /\ called = "none"
    /\ result = None
    /\ micro = <<>>
    /\ formatted = None
    /\ strArgs = None
    /\ second = None
    /\ net = None
    /\ page = None

\* route.ts lines 28-52: the request is answered at once or sent upstream
PostReceive ==
    /\ Has(http) /\ Val(http).handler = "route" /\ Val(http).pc = "received"
    /\ LET r == routeReceive(Val(http).body)
       IN  http' = Some(IF Has(r.response)
                        THEN [Val(http) EXCEPT !.pc = "done",
                                               !.responses = Append(@, Val(r.response))]
                        ELSE [Val(http) EXCEPT !.pc = "fetching",
                                               !.fetched = Append(@, Val(r.fetch))])
    /\ UNCHANGED <<inputs, formatted, called, result, second, net, page>>

\* route.ts lines 52-92: the upstream answers; an error response, or
\* explainTransaction is invoked
PostFetched ==
    /\ Has(http) /\ Val(http).handler = "route" /\ Val(http).pc = "fetching"
    /\ \E answer \in UpstreamAnswers :
           LET r == routeAfterFetch(answer)
           IN  http' = Some(IF Has(r.response)
                            THEN [Val(http) EXCEPT !.pc = "done", !.answer = Some(answer),
                                                   !.responses = Append(@, Val(r.response))]
                            ELSE [Val(http) EXCEPT !.pc = "explaining",
                                                   !.answer = Some(answer),
                                                   !.invoked = @ + 1,
                                                   !.parsed = r.invoke])
    /\ UNCHANGED <<inputs, formatted, called, result, second, net, page>>

\* route.ts lines 88-103: explainTransaction returns and the handler answers
PostExplained ==
    /\ Has(http) /\ Val(http).handler = "route" /\ Val(http).pc = "explaining"
    /\ http' = Some([Val(http) EXCEPT
                         !.pc = "done",
                         !.responses = Append(@, routeExplained(Val(Val(http).parsed)))])
    /\ UNCHANGED <<inputs, formatted, called, result, second, net, page>>

\* part_001 lines 10-25
PostReceiveV1 ==
    /\ Has(http) /\ Val(http).handler = "part_001" /\ Val(http).pc = "received"
    /\ LET r == receiveV1(Val(http).body)
       IN  http' = Some(IF Has(r.response)
                        THEN [Val(http) EXCEPT !.pc = "done",
                                               !.responses = Append(@, Val(r.response))]
                        ELSE [Val(http) EXCEPT !.pc = "fetching",
                                               !.fetched = Append(@, Val(r.fetch))])
    /\ UNCHANGED <<inputs, formatted, called, result, second, net, page>>

\* part_001 lines 27-55
PostFetchedV1 ==
    /\ Has(http) /\ Val(http).handler = "part_001" /\ Val(http).pc = "fetching"
    /\ \E answer \in UpstreamAnswers :
           http' = Some([Val(http) EXCEPT
                             !.pc = "done", !.answer = Some(answer),
                             !.invoked = IF answer.kind = "response" /\ answer.ok
                                         THEN @ + 1 ELSE @,
                             !.responses = Append(@, afterFetchV1(answer))])
    /\ UNCHANGED <<inputs, formatted, called, result, second, net, page>>

NextPost ==
    \/ PostReceive
    \/ PostFetched
    \/ PostExplained
    \/ PostReceiveV1
    \/ PostFetchedV1

SpecPost == InitPost /\ [][NextPost]_vars

----------------------------------------------------------------------------
(* The page component of route.ts (lines 296-396) and its requests *)

\* the message of lines 318 and 337 (its U+2019 written as an apostrophe)
InvalidMessage == "That doesn't look like a valid Stacks transaction ID (64 hex characters)."

\* the responses POST of route.ts can give to a JSON body, over everything
\* the upstream may answer
routeOutcomes(body) ==
    LET r == routeReceive(Some(body))
    IN  IF Has(r.response) THEN {Val(r.response)}
        ELSE {IF Has(a.response) THEN Val(a.response) ELSE routeExplained(Val(a.invoke)) :
                  a \in {routeAfterFetch(answer) : answer \in UpstreamAnswers}}

\* how the fetch of lines 341-345 can end: a JSON response of the handler, a
\* response that is not JSON (an error page), or a rejection
FetchOutcomes(body) ==
    {[kind |-> "json", status |-> r.status, payload |-> Some(r)] : r \in routeOutcomes(body)}
        \cup {[kind |-> "text", status |-> 500, payload |-> None],
              [kind |-> "rejects", status |-> 0, payload |-> None]}

\* line 326
canExplain(p) == ~p.isLoading /\ Len(trim(p.txidInput)) > 0 /\ p.validationError = ""

\* lines 309-324: the effect that follows a change of txidInput
afterInputChange(p) ==
    LET n == normalizeTxidPage(Some(p.txidInput))
    IN  IF trim(p.txidInput) = <<>>
        THEN [p EXCEPT !.normalized = <<>>, !.validationError = ""]
        ELSE [p EXCEPT !.normalized = n.with0x,
                       !.validationError = IF ~isValidTxidHex64(n.hex) THEN InvalidMessage
                                           ELSE ""]

\* lines 328-346: onExplain up to its fetch
onExplain(p) ==
    LET cleared == [p EXCEPT !.ok = None, !.err = None, !.rawText = "",
                             !.showDebug = FALSE]
        n == normalizeTxidPage(Some(p.txidInput))
    IN  IF ~isValidTxidHex64(n.hex)
        THEN [cleared EXCEPT !.validationError = InvalidMessage]
        ELSE [cleared EXCEPT !.isLoading = TRUE,
                             !.inflight = Append(@, [txid |-> Some(n.with0x),
                                                     network |-> Some(p.network)])]

\* lines 348-395: onExplain after its fetch has ended with outcome.  The
\* error payloads of the handler carry no ok property, its success payload
\* carries ok: true.
afterFetch(p, outcome) ==
    LET settled ==
            IF outcome.kind = "rejects"
            THEN [p EXCEPT !.err = Some([error |-> "Network error.", status |-> 0]),
                           !.showDebug = TRUE]
            ELSE IF outcome.kind = "text"
            THEN [p EXCEPT !.err = Some([error |-> "Server returned a non-JSON response.",
                                         status |-> outcome.status]),
                           !.rawText = "html", !.showDebug = TRUE]
            ELSE LET payload == Val(outcome.payload)
                 IN  IF outcome.status \notin 200..299
                     THEN [p EXCEPT !.err = Some([error |-> IF payload.error # ""
                                                            THEN payload.error
                                                            ELSE "Request failed.",
                                                  status |-> payload.status]),
                                    !.showDebug = TRUE]
                     ELSE [p EXCEPT !.ok = Some(payload)]
    IN  [settled EXCEPT !.isLoading = FALSE]

\* s without its i-th element
RemoveAt(s, i) == SubSeq(s, 1, i - 1) \o SubSeq(s, i + 1, Len(s))

----------------------------------------------------------------------------
(* Specification of the page: user actions and the ends of its requests *)

\* requests that may be awaiting their response at once
MaxInFlight == 2

\* what the user types or pastes
UserTxids ==
    {<<>>, Hex63, Hex64, <<" ">> \o S_0X \o toUpperCase(Hex64Alt) \o <<" ">>,
     S_0x \o S_0x \o Hex64}

InitPage ==
    /\ page = Some([txidInput |-> <<>>, network |-> "mainnet", isLoading |-> FALSE,
                    validationError |-> "", normalized |-> <<>>, ok |-> None,
                    err |-> None, showDebug |-> FALSE, rawText |-> "",
                    inflight |-> <<>>])
    /\ tx = NoTx
    /\ events = None
    /\ tz = 0
    /\ locale = EnUS
    /\ called = "none"
    /\ result = None
    /\ micro = <<>>
    /\ formatted = None
    /\ strArgs = None
    /\ second = None
    /\ net = None
    /\ http = None

\* line 494 and the effect of lines 309-324
TypeTxid ==
    /\ \E s \in UserTxids :
           /\ s # Val(page).txidInput
           /\ page' = Some(afterInputChange([Val(page) EXCEPT !.txidInput = s]))
    /\ UNCHANGED <<inputs, formatted, called, result, second, net, http>>

\* lines 465 and 477
SetNetwork ==
    /\ \E n \in Networks :
           /\ n # Val(page).network
           /\ page' = Some([Val(page) EXCEPT !.network = n])
    /\ UNCHANGED <<inputs, formatted, called, result, second, net, http>>

\* line 570
ToggleDebug ==
    /\ Has(Val(page).err)
    /\ page' = Some([Val(page) EXCEPT !.showDebug = ~@])
    /\ UNCHANGED <<inputs, formatted, called, result, second, net, http>>

\* lines 528-532: the button, disabled unless canExplain
ClickExplain ==
    /\ canExplain(Val(page))
    /\ Len(onExplain(Val(page)).inflight) <= MaxInFlight
    /\ page' = Some(onExplain(Val(page)))
    /\ UNCHANGED <<inputs, formatted, called, result, second, net, http>>

\* line 495: Enter in the input, which is never disabled
PressEnter ==
    /\ Len(onExplain(Val(page)).inflight) <= MaxInFlight
    /\ page' = Some(onExplain(Val(page)))
    /\ UNCHANGED <<inputs, formatted, called, result, second, net, http>>

\* lines 341-395: the fetch of one of the requests ends
RequestEnds ==
    /\ \E i \in 1..Len(Val(page).inflight) :
           \E outcome \in FetchOutcomes(Val(page).inflight[i]) :
               page' = Some(afterFetch([Val(page) EXCEPT !.inflight = RemoveAt(@, i)],
                                       outcome))
    /\ UNCHANGED <<inputs, formatted, called, result, second, net, http>>

NextPage ==
    \/ TypeTxid
    \/ SetNetwork
    \/ ToggleDebug
    \/ ClickExplain
    \/ PressEnter
    \/ RequestEnds

SpecPage == InitPage /\ [][NextPage]_vars

----------------------------------------------------------------------------
(* Properties *)

\* n / 1,000,000 written by moving the decimal point six places to the left
\* in the digit string: the whole part without leading zeros ("0" when
\* empty), then "." and the six fraction digits without trailing zeros,
\* omitted when they are all zero
ShiftSixPlaces(s) ==
    LET p     == PadStartZero(s, 7)
        whole == StripLeadingZeros(SubSeq(p, 1, Len(p) - 6))
        frac  == StripTrailingZeros(SubSeq(p, Len(p) - 5, Len(p)))
    IN  (IF whole = <<>> THEN <<"0">> ELSE whole)
            \o (IF frac = <<>> THEN <<>> ELSE <<".">> \o frac)

\* C1: for every non-empty string of decimal digits, formatSTXFromMicro
\* returns exactly n / 1,000,000 as whole.fraction (fraction zero-padded to
\* six digits, trailing zeros stripped, omitted when zero), with no digit
\* lost or rounded, also for amounts of 18 or more digits.
C1_ExactConversion ==
    (Has(formatted) /\ IsDigitString(micro)) =>
        Val(formatted) = ShiftSixPlaces(micro)

\* an amount of 18 or more digits with a non-zero fraction has been formatted
C1_Witness ==
    /\ Has(formatted)
    /\ IsDigitString(micro)
    /\ Len(micro) >= 18
    /\ Includes(Val(formatted), <<".">>)
    /\ micro[Len(micro) - 5] = "0"

\* the outcome of the call and the object it returned
Outcome == Val(result)
Out == Val(result).value

KnownTypes == {S_token_transfer, S_contract_call, S_smart_contract}

\* C2: for a token_transfer transaction with a populated amount, the
\* amountFormatted of explainTransaction (explainTx.ts) is the integer-safe
\* conversion of the raw amount: "1000000" gives "1".
C2_AmountFormattedIntegerSafe ==
    (/\ called = "explainTransaction"
     /\ tx.tx_type = Some(S_token_transfer)
     /\ TruthyStr(OptGet(tx.token_transfer, "amount")))
        => /\ ~Outcome.threw
           /\ Out.amountFormatted =
                  Some(formatSTXFromMicro(Val(Val(tx.token_transfer).amount)))

\* the transaction carries the type discriminator and nothing else
OnlyDiscriminator ==
    /\ TruthyStr(tx.tx_type)
    /\ \A k \in (DOMAIN tx) \ {"tx_type"} : tx[k] = None

OptionalOutputsAbsent ==
    /\ Out.status = None
    /\ Out.sender = None
    /\ Out.recipient = None
    /\ Out.amount = None
    /\ Out.feeRate = None
    /\ Out.nonce = None
    /\ Out.contractId = None
    /\ Out.functionName = None
    /\ Out.memo = None
    /\ Out.blockHeight = None
    /\ Out.blockTime = None

\* C3 as claimed: for a transaction that carries only the discriminator,
\* explainTransaction returns, every optional output is absent and the
\* summary is non-empty and contains the discriminator value.
C3_SummaryContainsDiscriminator ==
    (called # "none" /\ OnlyDiscriminator)
        => /\ ~Outcome.threw
           /\ OptionalOutputsAbsent
           /\ Out.summary # <<>>
           /\ Includes(Out.summary, Val(tx.tx_type))

\* C3 as amended: for a transaction that carries only the discriminator,
\* explainTransaction returns, every optional output is absent and the
\* summary is non-empty; it contains the discriminator value when the
\* discriminator is none of token_transfer, contract_call, smart_contract,
\* and for these three it is the type's own sentence with the "unknown ..."
\* placeholders.
C3_OnlyDiscriminator ==
    (called # "none" /\ OnlyDiscriminator)
        => /\ ~Outcome.threw
           /\ OptionalOutputsAbsent
           /\ Out.summary # <<>>
           /\ Val(tx.tx_type) \notin KnownTypes
                  => Includes(Out.summary, Val(tx.tx_type))
           /\ tx.tx_type = Some(S_token_transfer)
                  => /\ Includes(Out.summary, S_unknownAmount)
                     /\ Includes(Out.summary, S_unknownRecipient)
           /\ tx.tx_type = Some(S_contract_call)
                  => /\ Includes(Out.summary, S_unknownFunction)
                     /\ Includes(Out.summary, S_unknownContract)
           /\ tx.tx_type = Some(S_smart_contract)
                  => Includes(Out.summary, S_published \o S_unknownContract)

\* explainTransaction has explained a coinbase transaction that carries
\* nothing but its type
C3_Witness ==
    /\ called = "explainTransaction"
    /\ OnlyDiscriminator
    /\ tx.tx_type = Some(S_coinbase)
    /\ ~Outcome.threw

\* C4: for a contract_call transaction whose contract_call object is
\* missing, explainTransaction does not throw, contractId and functionName
\* are absent and the summary says "unknown function" and "unknown contract".
C4_MissingContractCall ==
    (/\ called = "explainTransaction"
     /\ tx.tx_type = Some(S_contract_call)
     /\ tx.contract_call = None)
        => /\ ~Outcome.threw
           /\ Out.contractId = None
           /\ Out.functionName = None
           /\ Includes(Out.summary, S_unknownContract)
           /\ Includes(Out.summary, S_unknownFunction)

\* a contract_call transaction without its contract_call object, holding
\* another nested object, has been explained
C4_Witness ==
    /\ called = "explainTransaction"
    /\ tx.tx_type = Some(S_contract_call)
    /\ tx.contract_call = None
    /\ Has(tx.token_transfer)
    /\ Has(result)

\* C5: explainTransaction (explainTx.ts) never throws, whichever optional
\* properties and nested objects are present, and an absent input leaves
\* the output that depends on it undefined.
C5_NeverThrows ==
    called = "explainTransaction"
        => /\ ~Outcome.threw
           /\ ~Has(tx.tx_status) => Out.status = None
           /\ ~Has(tx.sender_address) => Out.sender = None
           /\ ~Has(tx.fee_rate) => (Out.feeRate = None /\ Out.feeFormatted = None)
           /\ ~Has(tx.nonce) => Out.nonce = None
           /\ ~Has(tx.block_height) => (Out.blockHeight = None /\ Out.confirmations = None)
           /\ (~Has(tx.block_time) /\ ~Has(tx.block_time_iso)) => Out.blockTime = None
           /\ ~Has(OptGet(tx.token_transfer, "recipient_address")) => Out.recipient = None
           /\ ~Has(OptGet(tx.token_transfer, "amount"))
                  => (Out.amount = None /\ Out.amountFormatted = None)
           /\ ~Has(OptGet(tx.token_transfer, "memo")) => Out.memo = None
           /\ ~Has(OptGet(tx.contract_call, "function_name")) => Out.functionName = None
           /\ ~Has(OptGet(tx.contract_call, "function_args")) => Out.functionArgs = None
           /\ (/\ ~Has(OptGet(tx.contract_call, "contract_id"))
               /\ ~Has(OptGet(tx.smart_contract, "contract_id"))) => Out.contractId = None

\* a transaction with no nested object at all, and one whose contract_call
\* object lacks function_args: the witness is the second
C5_Witness ==
    /\ called = "explainTransaction"
    /\ tx.tx_type = Some(S_contract_call)
    /\ Has(tx.contract_call)
    /\ ~Has(Val(tx.contract_call).function_args)
    /\ ~Has(Val(tx.contract_call).contract_id)
    /\ ~Has(tx.sender_address)
    /\ ~Outcome.threw

\* the sender as a summary shows it: as it is up to 14 characters, else its
\* first six characters, an ellipsis and its last six
ShownSender(a) ==
    IF Len(a) <= 14 THEN a
    ELSE SubSeq(a, 1, 6) \o <<Ellipsis>> \o SubSeq(a, Len(a) - 5, Len(a))

\* C7: for every discriminator other than token_transfer, contract_call and
\* smart_contract (a missing one reads "unknown"), explainTransaction takes
\* the fallback path: it does not throw and the summary is
\* "<sender or Unknown sender> submitted a <type> transaction" followed by
\* " (<status>)" when there is a status.
C7_GenericSummary ==
    (/\ called = "explainTransaction"
     /\ \A k \in KnownTypes : tx.tx_type # Some(k))
        => /\ ~Outcome.threw
           /\ Out.summary # <<>>
           /\ Out.summary =
                  (IF Has(tx.sender_address) THEN ShownSender(Val(tx.sender_address))
                   ELSE S_UnknownSender)
                  \o S_submitted
                  \o (IF Has(tx.tx_type) THEN Val(tx.tx_type) ELSE S_unknown)
                  \o S_transaction
                  \o (IF Has(tx.tx_status) THEN S_open \o Val(tx.tx_status) \o S_close
                      ELSE <<>>)
           /\ Out.txType = (IF Has(tx.tx_type) THEN Val(tx.tx_type) ELSE S_unknown)
           /\ Out.recipient = None /\ Out.amount = None /\ Out.memo = None
           /\ Out.contractId = None /\ Out.functionName = None

\* a transaction without a discriminator, from a long sender address and
\* with a status, has been explained
C7_Witness ==
    /\ called = "explainTransaction"
    /\ tx.tx_type = None
    /\ tx.sender_address = Some(LongAddress)
    /\ Has(tx.tx_status)
    /\ Has(tx.token_transfer)
    /\ ~Outcome.threw
    /\ Includes(Out.summary, S_unknown)

\* C10: in every output of explainTransaction (explainTx.ts and part_006)
\* amount is defined only for a token_transfer transaction whose
\* token_transfer.amount is present, and then it is that amount as a string.
C10_AmountOnlyForTransfers ==
    (called \in {"explainTransaction", "explainTransactionV1"} /\ ~Outcome.threw
        /\ Has(Out.amount))
        => /\ tx.tx_type = Some(S_token_transfer)
           /\ Has(OptGet(tx.token_transfer, "amount"))
           /\ Out.amount = Val(tx.token_transfer).amount

\* a token transfer with an amount has been explained, and so has a
\* contract call that also holds a token_transfer object with an amount
C10_Witness ==
    /\ called = "explainTransaction"
    /\ ~Outcome.threw
    /\ tx.tx_type = Some(S_contract_call)
    /\ Has(OptGet(tx.token_transfer, "amount"))
    /\ Out.amount = None

\* C6: parseStacksTx degrades gracefully when the nested object expected
\* for the discriminator is absent: for a contract_call transaction without
\* a contract_call object or whose contract_call has no function_args, and
\* for a token_transfer transaction without a token_transfer object, it
\* returns (does not throw) with the dependent fields omitted.
C6_ParseDegradesGracefully ==
    (/\ called \in {"parseStacksTxV1", "parseStacksTxV2"}
     /\ \/ /\ tx.tx_type = Some(S_contract_call)
           /\ \/ ~Has(tx.contract_call)
              \/ ~Has(OptGet(tx.contract_call, "function_args"))
        \/ /\ tx.tx_type = Some(S_token_transfer)
           /\ ~Has(tx.token_transfer))
        => /\ ~Outcome.threw
           /\ ~Has(tx.contract_call) => Out.contractCall = None
           /\ (called = "parseStacksTxV2" /\ ~Has(tx.token_transfer))
                  => (Out.receiver = None /\ Out.amount = None)

\* the first present value among token_transfer.recipient_address,
\* contract_call.contract_id and smart_contract.contract_id, in that order
FirstPresentRecipient ==
    Coalesce(OptGet(tx.token_transfer, "recipient_address"),
             Coalesce(OptGet(tx.contract_call, "contract_id"),
                      OptGet(tx.smart_contract, "contract_id")))

\* an optional value as pickAmountAndRecipient shows it
OrDash(o) == IF Has(o) THEN Val(o) ELSE Dash

\* C8: for a transaction that carries its discriminator, whatever the
\* discriminator is, the recipient is the first present value among
\* token_transfer.recipient_address, contract_call.contract_id and
\* smart_contract.contract_id, verbatim.
C8_RecipientFixedOrder ==
    Has(tx.tx_type) =>
        /\ called = "pickAmountAndRecipient"
               => Out.recipient = OrDash(FirstPresentRecipient)
        /\ called = "explainTransaction"
               => (~Outcome.threw /\ Out.recipient = FirstPresentRecipient)

\* What the two implementations compute instead.  pickAmountAndRecipient
\* returns token_transfer.recipient_address for a token_transfer
\* transaction that has a token_transfer object and
\* stx_transfer.recipient_address for an stx_transfer transaction that has
\* an stx_transfer object (the placeholder when the address is absent,
\* with no fall back to a contract id); for every other transaction it
\* returns contract_call.contract_id if present, else
\* smart_contract.contract_id if present, else the placeholder.
\* explainTransaction (explainTx.ts) sets recipient only in the first case
\* and leaves it undefined otherwise.
RecipientByDiscriminator ==
    /\ called = "pickAmountAndRecipient"
           => Out.recipient =
                  (IF tx.tx_type = Some(S_token_transfer) /\ Has(tx.token_transfer)
                   THEN OrDash(Val(tx.token_transfer).recipient_address)
                   ELSE IF tx.tx_type = Some(S_stx_transfer) /\ Has(tx.stx_transfer)
                   THEN OrDash(Val(tx.stx_transfer).recipient_address)
                   ELSE OrDash(Coalesce(OptGet(tx.contract_call, "contract_id"),
                                        OptGet(tx.smart_contract, "contract_id"))))
    /\ called = "explainTransaction"
           => /\ ~Outcome.threw
              /\ Out.recipient =
                     (IF tx.tx_type = Some(S_token_transfer) /\ Has(tx.token_transfer)
                      THEN Val(tx.token_transfer).recipient_address
                      ELSE None)

\* fee_rate when present, else fee
ResolvedFee == Coalesce(tx.fee_rate, tx.fee)

\* the value of the card of the given title
CardValue(title) ==
    LET i == CHOOSE j \in 1..Len(Out.cards) : Out.cards[j].title = title
    IN  Out.cards[i].value

\* C9: for a transaction that carries its discriminator, the fee output
\* comes from fee_rate when fee_rate is present and otherwise from fee: a
\* transaction with only fee still yields a fee, and fee_rate wins when
\* both are present.
C9_FeeRateThenFee ==
    Has(tx.tx_type) =>
        /\ called = "explainTransaction"
               => (~Outcome.threw /\ Out.feeRate = ResolvedFee)
        /\ called = "explainTransactionCards"
               => CardValue("Fee rate") =
                      (IF Has(ResolvedFee)
                       THEN NumberToLocaleString(Val(ResolvedFee)) \o S_unitMicroStx
                       ELSE Dash)

\* the number of events handed in (none when the list is missing)
InputEventCount == IF Has(events) THEN Len(Val(events)) ELSE 0

\* C11: explainTransaction(tx, events) returns as many events as it was
\* given, for a list of any length; an empty or a missing list gives an
\* empty list and no failure.
C11_NoEventDropped ==
    called = "explainTransactionCards"
        => (~Outcome.threw /\ Len(Out.events) = InputEventCount)

\* the first present value among event_type, type and name, or "event"
FirstPresentType(e) ==
    Val(Coalesce(e.event_type, Coalesce(e.type, Coalesce(e.name, Some(S_event)))))

\* C12: each event returned or shown carries as its type the first present
\* value among event_type, type, name of the event it comes from, and the
\* literal "event" when none is present.
C12_TypeAliasOrder ==
    /\ called = "explainTransactionCards"
           => \A i \in 1..Len(Out.events) :
                  Out.events[i].event_type = Some(FirstPresentType(Val(events)[i]))
    /\ called = "renderEventsV2"
           => \A i \in 1..Len(Out) : Out[i].kind = FirstPresentType(Val(events)[i])
    /\ called = "renderEvents"
           => \A i \in 1..Len(Out) : Out[i].type = FirstPresentType(Val(events)[i])

\* the threshold of the shortening that was called
ShortenThreshold ==
    IF called = "shorten" THEN Val(strArgs).left + Val(strArgs).right + 3 ELSE 14

\* C13: shortAddr and shorten return an address at or below the threshold
\* unchanged, return nothing longer than the threshold, and applied to
\* their own result return it unchanged, for every input string.
C13_ShorteningIdempotent ==
    called \in {"shortAddr", "shorten"} =>
        /\ Len(Val(strArgs).s) <= ShortenThreshold => Out = Val(strArgs).s
        /\ Len(Out) <= ShortenThreshold
        /\ Has(second) => Val(second).result = Out

\* C14 as claimed: shortAddr turns a 40-character address into its first 6
\* characters, an ellipsis and its last 4 characters.
C14_FirstSixLastFour ==
    (called \in {"shortAddr", "shortAddrV1"} /\ Len(Val(strArgs).s) = 40)
        => Out = SubSeq(Val(strArgs).s, 1, 6) \o <<Ellipsis>>
                     \o SubSeq(Val(strArgs).s, 37, 40)

\* C14 as amended: shortAddr (explainTx.ts and part_006) turns a
\* 40-character address into its first 6 characters, an ellipsis and its
\* last 6 characters, 13 characters in all.
C14_FirstSixLastSix ==
    (called \in {"shortAddr", "shortAddrV1"} /\ Len(Val(strArgs).s) = 40)
        => /\ Out = SubSeq(Val(strArgs).s, 1, 6) \o <<Ellipsis>>
                        \o SubSeq(Val(strArgs).s, 35, 40)
           /\ Len(Out) = 13

\* shortAddr has shortened a 40-character address
C14_Witness ==
    /\ called = "shortAddr"
    /\ Len(Val(strArgs).s) = 40
    /\ Out # Val(strArgs).s
    /\ Out[13] = Val(strArgs).s[40]

\* a token_transfer transaction whose sender, recipient, amount and status
\* are all populated
FullTokenTransfer ==
    /\ tx.tx_type = Some(S_token_transfer)
    /\ TruthyStr(tx.sender_address)
    /\ TruthyStr(tx.tx_status)
    /\ TruthyStr(OptGet(tx.token_transfer, "recipient_address"))
    /\ TruthyStr(OptGet(tx.token_transfer, "amount"))

\* C15: the summary of a token_transfer transaction whose sender_address,
\* token_transfer.recipient_address, token_transfer.amount and tx_status
\* are all populated contains the shortened sender, the shortened
\* recipient and the status.
C15_SummaryOfFullTransfer ==
    (called \in {"explainTransaction", "explainTransactionV1"} /\ FullTokenTransfer)
        => /\ ~Outcome.threw
           /\ Includes(Out.summary, ShownSender(Val(tx.sender_address)))
           /\ Includes(Out.summary,
                       ShownSender(Val(Val(tx.token_transfer).recipient_address)))
           /\ Includes(Out.summary, Val(tx.tx_status))

\* explainTransaction has summarised a full token transfer between two
\* addresses long enough to be shortened
C15_Witness ==
    /\ called = "explainTransaction"
    /\ FullTokenTransfer
    /\ Len(Val(tx.sender_address)) > 14
    /\ Len(Out.summary) > 0
    /\ Out.status = Some(S_success)

\* an optional value that is an arbitrary-precision integer
IsBigInt(o) == Has(o) /\ Val(o).kind = "bigint"

\* the spending condition embedded in an explanation, if any
EmbeddedSpending(o) ==
    IF Has(o.parsedTx.auth) THEN Val(o.parsedTx.auth).spendingCondition ELSE None

\* no arbitrary-precision integer anywhere in an explanation
NoBigIntIn(o) ==
    /\ \A f \in {"anchorMode", "txType", "fee", "nonce"} : ~IsBigInt(o.details[f])
    /\ ~IsBigInt(o.parsedTx.anchorMode)
    /\ ~IsBigInt(OptGet(EmbeddedSpending(o), "fee"))
    /\ ~IsBigInt(OptGet(EmbeddedSpending(o), "nonce"))

\* C16: what explainTransaction(rawTxHex) returns holds no
\* arbitrary-precision integer: fee, nonce and every value nested in the
\* embedded parsedTx are decimal strings.
C16_NoBigIntInOutput ==
    called = "explainTransactionRaw" => (~Outcome.threw /\ NoBigIntIn(Out))

\* C17: two invocations of explainTransaction on the same transaction
\* return equal results, whatever the time zone of the process is at each
\* of them.
C17_Deterministic ==
    (called = "explainTransaction" /\ Has(second)) => Val(second).result = Val(result)

\* the order the claim prescribes: preferred then the other, mainnet then
\* testnet without a preference
PrescribedOrder ==
    IF Val(net).preferred = Some("testnet") THEN <<"testnet", "mainnet">>
    ELSE <<"mainnet", "testnet">>

C19_FallbackOnlyOnNotFound ==
    Len(Val(net).attempts) = 2 => Val(net).failures[1] = Some(404)

\* C19 as amended: a second attempt is made after a first attempt that
\* failed, whatever the failure (404, another HTTP status or no response):
\* once the first attempt has failed the loop is at the second network, and
\* the call throws only after both networks were attempted and both failed.
C19_FallbackOnAnyFailure ==
    LET n == Val(net)
    IN  /\ Len(n.attempts) = 2 => Len(n.failures) >= 1
        /\ (Len(n.failures) = 1 /\ n.pc = "loop") => n.i = 2
        /\ (Has(result) /\ Outcome.threw)
               => (Len(n.attempts) = 2 /\ Len(n.failures) = 2)

\* the first network answered 500 and the second has been attempted
C19_Witness ==
    /\ Len(Val(net).attempts) = 2
    /\ Val(net).failures[1] = Some(500)

\* both networks answered not-found
BothNotFound ==
    /\ Len(Val(net).failures) = 2
    /\ Val(net).failures[1] = Some(404)
    /\ Val(net).failures[2] = Some(404)

\* C20: when both attempts fail the thrown failure is the not-found one
\* (that message, status 404) exactly when both networks answered 404, and
\* the server-error one when either failed otherwise.
C20_TypedFailure ==
    (Has(result) /\ Outcome.threw) =>
        /\ BothNotFound
               <=> (/\ Out.message = "Transaction not found on mainnet or testnet (Hiro)."
                    /\ Out.status = 404)
        /\ ~BothNotFound => Out.message = "Failed to fetch transaction from Hiro."

\* C23: explainParsedTx applies a fixed precedence to what parseStacksTx
\* returned.  blockHeight is "Pending" exactly when the raw block_height is
\* absent, and then the explanation is the pending one whatever the status and
\* the type; otherwise a status "failed" gives the failure explanation with
\* the parsed error or "Unknown error."; only otherwise is the explanation
\* the type-specific or the fallback one.
C23_FixedPrecedence ==
    (called \in {"parseStacksTxV1", "parseStacksTxV2"} /\ ~Outcome.threw) =>
        /\ (Out.blockHeight = StringValue(S_Pending)) <=> ~Has(tx.block_height)
        /\ Has(second) =>
               IF ~Has(tx.block_height)
               THEN Val(second) = S_StillPending
               ELSE IF tx.tx_status = Some(S_failed)
               THEN Val(second) =
                        S_FailedReason \o (IF TruthyStr(ErrorOf(Out)) THEN Val(ErrorOf(Out))
                                           ELSE S_UnknownErrorDot)
               ELSE /\ Val(second) # S_StillPending
                    /\ ~startsWith(Val(second), S_FailedReason)
                    /\ IF tx.tx_type = Some(S_token_transfer)
                       THEN startsWith(Val(second), S_SuccessfullyTransferred)
                       ELSE IF tx.tx_type = Some(S_contract_call) /\ Has(tx.contract_call)
                       THEN Includes(Val(second), S_calledTheFunction)
                       ELSE Includes(Val(second), NewLine \o S_TypeLine)

\* a failed transaction without a block height has been explained as pending
C23_Witness ==
    /\ called = "parseStacksTxV1"
    /\ ~Has(tx.block_height)
    /\ tx.tx_status = Some(S_failed)
    /\ tx.tx_type = Some(S_contract_call)
    /\ second = Some(S_StillPending)

\* C24: explainParsedTx says "was successful" or "successfully transferred"
\* only when the parsed status is "success"; for any other status
\* (abort_by_response, abort_by_post_condition, dropped, missing) the text
\* never states success.
C24_SuccessOnlyOnSuccess ==
    (called \in {"parseStacksTxV1", "parseStacksTxV2"} /\ ~Outcome.threw /\ Has(second)) =>
        ((\/ Includes(Val(second), S_wasSuccessfulWords)
          \/ Includes(Val(second), S_successfullyTransferredWords))
            => Out.status = Some(S_success))

\* position of the transfer's amount in RiskAmounts
AmountIndex(t) ==
    CHOOSE i \in 1..Len(RiskAmounts) : Val(t.token_transfer).amount = Some(RiskAmounts[i])

\* the levels in increasing order of risk
RiskRank(level) ==
    CASE level = "low" -> 0 [] level = "medium" -> 1 [] level = "high" -> 2
      [] level = "critical" -> 3

\* C25: determineRiskLevel has a fixed precedence and fixed thresholds: the
\* statuses failed, abort_by_response and abort_by_post_condition always give
\* "critical"; otherwise a token_transfer is "high" exactly when its amount
\* exceeds 1,000,000,000,000 micro-STX, "medium" exactly when it exceeds
\* 100,000,000,000 and is at most 1,000,000,000,000, and "low" at or below
\* 100,000,000,000; the level never decreases when the amount grows.
C25_RiskThresholds ==
    called = "explainTransaction" =>
        /\ ~Outcome.threw
        /\ IF tx.tx_status \in {Some(S_failed), Some(S_abort_by_response),
                                Some(S_abort_by_post_condition)}
           THEN Out.riskLevel = "critical"
           ELSE /\ Out.riskLevel = "high" <=> AmountIndex(tx) >= 7
                /\ Out.riskLevel = "medium" <=> AmountIndex(tx) \in 4..6
                /\ Out.riskLevel = "low" <=> AmountIndex(tx) <= 3
        /\ \A i \in 1..AmountIndex(tx) :
               LET smaller == [tx EXCEPT !.token_transfer =
                                   Some([Val(tx.token_transfer) EXCEPT
                                             !.amount = Some(RiskAmounts[i])])]
               IN  RiskRank(explainTransaction(smaller).value.riskLevel)
                       <= RiskRank(Out.riskLevel)

\* a successful transfer of exactly 10^12 micro-STX has been rated medium
C25_Witness ==
    /\ called = "explainTransaction"
    /\ tx.tx_status = Some(S_success)
    /\ AmountIndex(tx) = 6
    /\ Out.riskLevel = "medium"

\* a string without a leading 0x or 0X, without an upper-case letter and
\* without white space at either end
Canonical(s) ==
    /\ ~startsWith(s, S_0x)
    /\ ~startsWith(s, S_0X)
    /\ \A i \in 1..Len(s) : s[i] \notin UpperChars
    /\ s # <<>> => (s[1] \notin SpaceChars /\ s[Len(s)] \notin SpaceChars)

\* C30: normalizeTxid is idempotent and canonical for every input string:
\* applying it twice gives what applying it once gives, and its output has no
\* leading 0x or 0X, no upper-case letter and no surrounding white space.
C30_IdempotentCanonical ==
    called = "normalizeTxid" =>
        /\ Canonical(Out)
        /\ Has(second) => Val(second) = Out

\* what follows the one prefix normalizeTxid removes from the trimmed input
AfterOnePrefix(input) ==
    LET raw == trim(StringOrEmpty(input))
    IN  IF startsWith(raw, S_0x) \/ startsWith(raw, S_0X) THEN SubSeq(raw, 3, Len(raw))
        ELSE raw

\* C30 as amended: normalizeTxid is idempotent and canonical for every input
\* whose text after the trimmed input's one optional 0x or 0X prefix begins
\* neither with white space nor with another 0x or 0X.
C30_IdempotentCanonicalOnePrefix ==
    (/\ called = "normalizeTxid"
     /\ LET rest == AfterOnePrefix(Val(strArgs).input)
        IN  /\ ~startsWith(rest, S_0x)
            /\ ~startsWith(rest, S_0X)
            /\ rest # <<>> => rest[1] \notin SpaceChars) =>
        /\ Canonical(Out)
        /\ Has(second) => Val(second) = Out

\* an upper-case id with a 0X prefix and surrounding white space has been
\* normalized to a valid id, and normalized again
C30_Witness ==
    /\ called = "normalizeTxid"
    /\ Val(strArgs).input = Some(<<" ">> \o S_0X \o toUpperCase(Hex64) \o <<" ", "\n">>)
    /\ Out = Hex64
    /\ isValidTxid(Out)
    /\ second = Some(Hex64)

\* a transaction id as the claim defines validity: trimmed and without its
\* optional 0x prefix it is exactly 64 hexadecimal characters
SixtyFourHex(s) ==
    LET t == trim(s)
        rest == IF startsWith(t, S_0x) \/ startsWith(t, S_0X) THEN SubSeq(t, 3, Len(t))
                ELSE t
    IN  Len(rest) = 64 /\ AllIn(rest, HexChars)

\* the txid of the request's JSON body, "" when the body has none
RequestTxid == StringOrEmpty(Val(Val(http).body).txid)

\* C21: POST /api/explain validates the txid before any upstream request: a
\* request whose txid, trimmed and without its optional 0x prefix, is not
\* exactly 64 hexadecimal characters is answered with HTTP 400 and never
\* leads to a fetch to Hiro.  (A body that is not JSON carries no txid; it
\* leads to no fetch either.)
C21_ValidatedBeforeFetch ==
    Has(http) =>
        /\ (Has(Val(http).body) /\ ~SixtyFourHex(RequestTxid)) =>
               /\ Val(http).fetched = <<>>
               /\ Val(http).pc \in {"received", "done"}
               /\ Val(http).pc = "done" =>
                      /\ Len(Val(http).responses) = 1
                      /\ Val(http).responses[1].status = 400
        /\ ~Has(Val(http).body) => Val(http).fetched = <<>>
        /\ \A i \in 1..Len(Val(http).fetched) :
               /\ Has(Val(http).body)
               /\ SixtyFourHex(RequestTxid)

\* the route.ts handler has answered 400 to an id of 63 hexadecimal
\* characters without fetching
C21_Witness ==
    /\ Has(http)
    /\ Val(http).handler = "route"
    /\ Has(Val(http).body)
    /\ Val(Val(http).body).txid = Some(Hex63)
    /\ Val(http).pc = "done"
    /\ Val(http).responses = <<InvalidTxid>>
    /\ Val(http).fetched = <<>>

\* the string extracted from the upstream JSON by the handler's four keys
ExtractedHex(answer) ==
    LET j == Val(answer.json)
        strings == {f \in {"raw_tx", "rawTx", "tx", "raw"} :
                        Has(j[f]) /\ Val(j[f]).kind = "string" /\ Val(j[f]).text # <<>>}
    IN  strings

\* C22: in POST of route.ts, explainTransaction is invoked only after the
\* upstream fetch returned OK and a non-empty raw-transaction hex string was
\* extracted; on an upstream non-OK status, an unexpected body shape or a
\* thrown exception exactly one error response is returned and the normalizer
\* is never invoked for that request.
C22_NormalizerAfterRawTx ==
    (Has(http) /\ Val(http).handler = "route") =>
        LET h == Val(http)
            failed == \/ ~Has(h.body)
                      \/ /\ Has(h.answer)
                         /\ \/ Val(h.answer).kind = "rejects"
                            \/ ~Val(h.answer).ok
                            \/ ~Has(Val(h.answer).json)
                            \/ ExtractedHex(Val(h.answer)) = {}
        IN  /\ h.invoked <= 1
            /\ Len(h.responses) = (IF h.pc = "done" THEN 1 ELSE 0)
            /\ h.invoked = 1 =>
                   /\ Len(h.fetched) = 1
                   /\ Has(h.answer)
                   /\ Val(h.answer).kind = "response"
                   /\ Val(h.answer).ok
                   /\ Has(Val(h.answer).json)
                   /\ ExtractedHex(Val(h.answer)) # {}
            /\ failed =>
                   /\ h.invoked = 0
                   /\ h.pc \in {"received", "done"}
                   /\ h.pc = "done" => h.responses[1].status >= 400 /\ ~h.responses[1].ok
            /\ (h.pc = "done" /\ h.responses[1].status >= 400) => h.invoked = 0

\* the handler has invoked the normalizer once after an OK answer whose raw
\* transaction is under the fourth key, and answered 200
C22_Witness ==
    /\ Has(http)
    /\ Val(http).handler = "route"
    /\ Val(http).pc = "done"
    /\ Val(http).invoked = 1
    /\ Val(Val(http).answer).json = Some([NoRawJson EXCEPT !.raw_tx = Some(StringOf(<<>>)),
                                                           !.raw = Some(StringOf(GoodRawHex))])
    /\ Val(http).responses[1].status = 200

\* C26: in the page component of route.ts, ok and err are never both
\* non-null, after any sequence of user actions and response arrivals.
C26_OkErrExclusive ==
    Has(page) => ~(Has(Val(page).ok) /\ Has(Val(page).err))

\* C27: at most one /api/explain request is in flight at any time: while
\* isLoading is true no click on Explain and no Enter starts a second one.
C27_SingleFlight ==
    Has(page) => Len(Val(page).inflight) <= 1

\* C28: every request onExplain starts ends with isLoading false and exactly
\* one of ok and err set, whatever the path (JSON success, JSON error payload
\* or non-2xx status, non-JSON body, thrown exception), and an input that
\* client validation rejects never sets isLoading to true.
C28_EveryRequestEnds ==
    [][Has(page) =>
           /\ Len(Val(page').inflight) < Len(Val(page).inflight) =>
                  /\ ~Val(page').isLoading
                  /\ Has(Val(page').ok) # Has(Val(page').err)
           /\ (~Val(page).isLoading /\ Val(page').isLoading) =>
                  /\ isValidTxidHex64(normalizeTxidPage(Some(Val(page).txidInput)).hex)
                  /\ Len(Val(page').inflight) = Len(Val(page).inflight) + 1]_vars

\* C29: the two validations of route.ts agree: an id that passes the page's
\* validation and is sent as 0x + hex is accepted by the handler's
\* isValidTxid, the handler's normalizeTxid maps it to 0x followed by exactly
\* 64 lower-case hexadecimal characters, and the request never receives the
\* handler's 400 "Invalid txid".
C29_ClientServerAgree ==
    Has(page) =>
        /\ \A i \in 1..Len(Val(page).inflight) :
               LET sent == Val(Val(page).inflight[i].txid)
                   received == trim(sent)
               IN  /\ isValidTxidRoute(received)
                   /\ startsWith(normalizeTxidRoute(received), S_0x)
                   /\ Len(normalizeTxidRoute(received)) = 66
                   /\ AllIn(SubSeq(normalizeTxidRoute(received), 3, 66),
                            {"0", "1", "2", "3", "4", "5", "6", "7", "8", "9",
                             "a", "b", "c", "d", "e", "f"})
                   /\ InvalidTxid \notin routeOutcomes(Val(page).inflight[i])
        /\ Has(Val(page).err) => Val(Val(page).err).error # InvalidTxid.error

\* the request of an upper-case id typed with 0X and spaces has been
\* answered by the handler with something other than "Invalid txid"
C29_Witness ==
    /\ Has(page)
    /\ Val(page).txidInput = <<" ">> \o S_0X \o toUpperCase(Hex64Alt) \o <<" ">>
    /\ Val(page).inflight = <<>>
    /\ ~Val(page).isLoading
    /\ Has(Val(page).err)
    /\ Val(Val(page).err).error = CouldNotFetch.error

=============================================================================
